---- MODULE Spec2Model ----
(***************************************************************************)
(* A model of the Lox interpreter of this repository in run mode           *)
(* (src/src/main.rs:88-116): a token sequence is parsed by the recursive   *)
(* descent parser (src/src/parser.rs) into statements, which the tree      *)
(* walking interpreter (src/src/interpreter.rs, callable.rs and            *)
(* environment.rs) executes.                                               *)
(*                                                                         *)
(* Every Rust function is one operator of the same name.  A function that  *)
(* takes &mut self becomes an operator from the old value of the struct to *)
(* a result record [st, ok, val]: st is the struct after the call, ok      *)
(* tells Ok/Some from Err/None and val is the payload.  Rust's `?` is the  *)
(* IF ~r.ok THEN r of the operators.  A Rust panic (todo!, unimplemented!, *)
(* unreachable!, an index out of bounds) is an Err whose payload has kind  *)
(* "Panic"; no handler of the program catches it.                          *)
(*                                                                         *)
(* The steps of the state machine are the iterations of the two top-level  *)
(* loops: Parser::parse (one declaration per step) and                     *)
(* Interpreter::interprete (one statement per step).  Spec starts from the *)
(* tokens of a program that is written word by word; ScanSpec starts from  *)
(* the characters of a source, which the scanner (src/src/scanner.rs)      *)
(* turns into tokens, one iteration of Scanner::scan_tokens per step.      *)
(***************************************************************************)
EXTENDS Integers, Sequences, FiniteSets, TLC

VARIABLES
    prog,       \* the input: which program of Programs is run
    phase,      \* position of main: "scan", "parse", "interpret", "returned", "exit"
    parser,     \* struct Parser {tokens, current, status} and its two output streams
    stmts,      \* the Vec<Stmt> that Parser::parse builds
    interp,     \* struct Interpreter {environment}, the frames it refers to, its output
    next_stmt,  \* position of the for loop of Interpreter::interprete (0-based)
    result,     \* what Interpreter::interprete returned to main, once it has
    main_err,   \* what main has printed with eprintln!
    exit_code,  \* the process exit status, once main has exited
    scanner     \* struct Scanner, and what it has written with eprintln!

vars ==
    <<prog, phase, parser, stmts, interp, next_stmt, result, main_err, exit_code,
      scanner>>

(***************************************************************************)
(* Results: Result<T, E> and Option<T>.                                    *)
(***************************************************************************)
Ok(st, v) == [st |-> st, ok |-> TRUE, val |-> v]

Err(st, e) == [st |-> st, ok |-> FALSE, val |-> e]

None == [kind |-> "None"]

Panic(msg) == [kind |-> "Panic", msg |-> msg]

(***************************************************************************)
(* Integer formatting, as Rust's Display of usize does it.                 *)
(***************************************************************************)
Digit(d) == <<"0", "1", "2", "3", "4", "5", "6", "7", "8", "9">>[d + 1]

RECURSIVE NatToStr(_)
NatToStr(n) ==
    IF n < 10 THEN Digit(n) ELSE NatToStr(n \div 10) \o Digit(n % 10)

(***************************************************************************)
(* token.rs: LiteralValue and Token.  A Number is an integer here: the     *)
(* programs of the model stay inside the integers, where f64 arithmetic is *)
(* exact.                                                                  *)
(***************************************************************************)
StringLiteral(s) == [tag |-> "StringLiteral", val |-> s]

NumberLiteral(n) == [tag |-> "NumberLiteral", val |-> n]

BoolLiteral(b) == [tag |-> "BoolLiteral", val |-> b]

NilLiteral == [tag |-> "NilLiteral"]

\* impl Display for LiteralValue: a number prints as f64's Debug form ("3.0")
LiteralValue_fmt(v) ==
    CASE v.tag = "StringLiteral" -> v.val
      [] v.tag = "NumberLiteral" ->
            IF v.val < 0 THEN "-" \o NatToStr(0 - v.val) \o ".0"
            ELSE NatToStr(v.val) \o ".0"
      [] v.tag = "BoolLiteral" -> IF v.val THEN "true" ELSE "false"
      [] OTHER -> "nil"

\* Token {ttype, lexeme, literal}; line is the field parser.rs:39 and
\* interpreter.rs:135 read
Token_new(ttype, lexeme, literal) ==
    [ttype |-> ttype, lexeme |-> lexeme, literal |-> literal, line |-> 1]

(***************************************************************************)
(* The syntax tree.  Expressions are built by the parser (parser.rs) and   *)
(* read by the interpreter (interpreter.rs); statements are statement.rs.  *)
(***************************************************************************)
Binary_new(left, operator, right) ==
    [node |-> "BinaryExpr", left |-> left, operator |-> operator, right |-> right]

Unary_new(operator, right) ==
    [node |-> "UnaryExpr", operator |-> operator, right |-> right]

Literal_new(value) == [node |-> "LiteralExpr", value |-> value]

Grouping_new(expression) == [node |-> "GroupingExpr", expression |-> expression]

Var_new(name) == [node |-> "VarExpr", name |-> name]

Assignment_new(name, value) ==
    [node |-> "AssignmentExpr", name |-> name, value |-> value]

Logical_new(left, operator, right) ==
    [node |-> "LogicalExpr", left |-> left, operator |-> operator, right |-> right]

Call_new(callee, paren, arguments) ==
    [node |-> "CallExpr", callee |-> callee, paren |-> paren, arguments |-> arguments]

ExprStmt(expr) == [node |-> "ExprStmt", expr |-> expr]

PrintStmt(expr) == [node |-> "PrintStmt", expr |-> expr]

VarStmt(name, init) == [node |-> "VarStmt", name |-> name, init |-> init]

BlockStmt(block) == [node |-> "BlockStmt", stmts |-> block]

IfStmtInner_new(condition, then_branch, else_branch) ==
    [node |-> "IfStmt", condition |-> condition, then_branch |-> then_branch,
     else_branch |-> else_branch]

WhileStmtInner_new(condition, body) ==
    [node |-> "WhileStmt", condition |-> condition, body |-> body]

FunctionStmtInner_new(name, params, body) ==
    [node |-> "FunctionStmt", name |-> name, params |-> params, body |-> body]

ReturnStmtInner_new(keyword, value) ==
    [node |-> "ReturnStmt", keyword |-> keyword, value |-> value]

(***************************************************************************)
(* parser.rs.  A parser value is [tokens, current, status, stdout, stderr]:*)
(* the struct Parser and the lines it has printed with println! (stdout)   *)
(* and eprintln! (stderr).  current is 0-based as in the source; tokens is *)
(* a TLA+ sequence, so the token at current is tokens[current + 1].        *)
(***************************************************************************)
MaxParams == 255

Parser_new(tokens) ==
    [tokens |-> tokens, current |-> 0, status |-> "Success",
     stdout |-> <<>>, stderr |-> <<>>]

ParserError_new(token, msg) == [token |-> token, msg |-> msg]

report(line, loc, msg) ==
    "[line " \o NatToStr(line) \o "] Error " \o loc \o ": " \o msg

ParserError_fmt(e) ==
    report(e.token.line,
           IF e.token.ttype = "EOF" THEN "at end"
           ELSE "at '" \o e.token.lexeme \o "'",
           e.msg)

peek(p) ==
    IF p.current + 1 \in DOMAIN p.tokens THEN p.tokens[p.current + 1]
    ELSE Token_new("OUT_OF_BOUNDS", "", None)

end(p) == peek(p).ttype = "EOF"

previous(p) ==
    IF p.current \in DOMAIN p.tokens THEN p.tokens[p.current]
    ELSE Token_new("OUT_OF_BOUNDS", "", None)

\* advance returns previous() of the parser it leaves behind
\* advance as it would be without its test of end
advance_unguarded(p) == [p EXCEPT !.current = @ + 1]

advance(p) == IF ~end(p) THEN [p EXCEPT !.current = @ + 1] ELSE p

check(p, ttype) == IF end(p) THEN FALSE ELSE p.tokens[p.current + 1].ttype = ttype

match_then_advance(p, ttypes) ==
    IF \E t \in ttypes : check(p, t) THEN Ok(advance(p), TRUE) ELSE Err(p, FALSE)

consume(p, ttype, msg) ==
    IF check(p, ttype) THEN Ok(advance(p), previous(advance(p)))
    ELSE Err(p, ParserError_new(peek(p), msg))

SyncKeywords == {"CLASS", "FUN", "VAR", "FOR", "IF", "WHILE", "PRINT", "RETURN"}

RECURSIVE synchronize_loop_ignores_semicolon(_)
synchronize_loop_ignores_semicolon(p) ==
    IF end(p) THEN p
    ELSE IF peek(p).ttype \in SyncKeywords THEN p
    ELSE synchronize_loop_ignores_semicolon(advance(p))

RECURSIVE synchronize_loop(_)
synchronize_loop(p) ==
    IF end(p) THEN p
    ELSE IF previous(p).ttype = "SEMICOLON" THEN p
    ELSE IF peek(p).ttype \in SyncKeywords THEN p
    ELSE synchronize_loop(advance(p))

\* synchronize as it would be without the advance before its loop
synchronize_stays(p) == synchronize_loop(p)

synchronize(p) == synchronize_loop(advance(p))

\* The grammar rules, innermost first.  A rule calls a rule that is defined
\* above it directly; the other calls go through rule, defined after them.
\* In a CASE the arms are read in the order written and the first arm whose
\* guard holds is taken: an arm "~r.ok -> r" is the early return of r?.
RECURSIVE rule(_, _)

primary(p) ==
    LET m1 == match_then_advance(p, {"FALSE"})
        m2 == match_then_advance(p, {"TRUE"})
        m3 == match_then_advance(p, {"NIL"})
        m4 == match_then_advance(p, {"NUMBER", "STRING"})
        m5 == match_then_advance(p, {"LEFT_PAREN"})
        expr == rule("expression", m5.st)
        rp == consume(expr.st, "RIGHT_PAREN", "expect ')' after expression.")
        m6 == match_then_advance(p, {"IDENTIFIER"})
    IN  CASE m1.ok -> Ok(m1.st, Literal_new(BoolLiteral(FALSE)))
          [] m2.ok -> Ok(m2.st, Literal_new(BoolLiteral(TRUE)))
          [] m3.ok -> Ok(m3.st, Literal_new(NilLiteral))
          [] m4.ok -> Ok(m4.st, Literal_new(previous(m4.st).literal))
          [] m5.ok /\ ~expr.ok -> expr
          [] m5.ok /\ ~rp.ok -> rp
          [] m5.ok -> Ok(rp.st, Grouping_new(expr.val))
          [] m6.ok -> Ok(m6.st, Var_new(previous(m6.st)))
          [] OTHER -> Err(p, ParserError_new(peek(p), "expect expression."))

\* the next n iterations of the loop of finish_call, or those up to the one
\* that leaves it (done): one iteration (step) when n = 1, and otherwise the
\* first half of them and then the others
RECURSIVE finish_call_loop(_, _, _)
finish_call_loop(p, arguments, n) ==
    LET arg == rule("expression", p)
        args == Append(arguments, arg.val)
        p1 == IF Len(args) >= MaxParams
              THEN [arg.st EXCEPT !.stdout = Append(@, ParserError_fmt(
                        ParserError_new(peek(arg.st),
                                        "Can't have more than 255 arguements.")))]
              ELSE arg.st
        m == match_then_advance(p1, {"COMMA"})
        step == IF arg.ok THEN [r |-> Ok(m.st, args), done |-> ~m.ok]
                ELSE [r |-> arg, done |-> TRUE]
        half == finish_call_loop(p, arguments, n \div 2)
    IN  CASE n = 1 -> step
          [] half.done -> half
          [] OTHER -> finish_call_loop(half.r.st, half.r.val, n - n \div 2)

finish_call(p, callee) ==
    LET arguments == IF check(p, "RIGHT_PAREN") THEN Ok(p, <<>>)
                     ELSE finish_call_loop(p, <<>>, Len(p.tokens)).r
        paren == consume(arguments.st, "RIGHT_PAREN", "expect ')' after arguments")
    IN  CASE ~arguments.ok -> arguments
          [] ~paren.ok -> paren
          [] OTHER -> Ok(paren.st, Call_new(callee, paren.val, arguments.val))

RECURSIVE call_loop(_, _)
call_loop(p, expr) ==
    LET m == match_then_advance(p, {"LEFT_PAREN"})
        fc == finish_call(m.st, expr)
    IN  CASE ~m.ok -> Ok(p, expr)
          [] ~fc.ok -> fc
          [] OTHER -> call_loop(fc.st, fc.val)

call(p) ==
    LET expr == rule("primary", p)
    IN  IF expr.ok THEN call_loop(expr.st, expr.val) ELSE expr

RECURSIVE unary(_)
unary(p) ==
    LET m == match_then_advance(p, {"BANG", "MINUS"})
        operator == previous(m.st)
        right == unary(m.st)
    IN  CASE ~m.ok -> call(p)
          [] ~right.ok -> right
          [] OTHER -> Ok(right.st, Unary_new(operator, right.val))

RECURSIVE factor_loop(_, _)
factor_loop(p, expr) ==
    LET m == match_then_advance(p, {"SLASH", "STAR"})
        operator == previous(m.st)
        right == rule("unary", m.st)
    IN  CASE ~m.ok -> Ok(p, expr)
          [] ~right.ok -> right
          [] OTHER -> factor_loop(right.st, Binary_new(expr, operator, right.val))

factor(p) ==
    LET expr == rule("unary", p)
    IN  IF expr.ok THEN factor_loop(expr.st, expr.val) ELSE expr

RECURSIVE term_loop_right_leaning(_, _)
term_loop_right_leaning(p, expr) ==
    LET m == match_then_advance(p, {"MINUS", "PLUS"})
        operator == previous(m.st)
        right == rule("factor", m.st)
        rest == term_loop_right_leaning(right.st, right.val)
    IN  CASE ~m.ok -> Ok(p, expr)
          [] ~right.ok -> right
          [] ~rest.ok -> rest
          [] OTHER -> Ok(rest.st, Binary_new(expr, operator, rest.val))

RECURSIVE term_loop(_, _)
term_loop(p, expr) ==
    LET m == match_then_advance(p, {"MINUS", "PLUS"})
        operator == previous(m.st)
        right == rule("factor", m.st)
    IN  CASE ~m.ok -> Ok(p, expr)
          [] ~right.ok -> right
          [] OTHER -> term_loop(right.st, Binary_new(expr, operator, right.val))

term(p) ==
    LET expr == rule("factor", p)
    IN  IF expr.ok THEN term_loop(expr.st, expr.val) ELSE expr

RECURSIVE comparison_loop(_, _)
comparison_loop(p, expr) ==
    LET m == match_then_advance(p, {"GREATER", "GREATER_EQUAL", "LESS", "LESS_EQUAL"})
        operator == previous(m.st)
        right == rule("term", m.st)
    IN  CASE ~m.ok -> Ok(p, expr)
          [] ~right.ok -> right
          [] OTHER -> comparison_loop(right.st, Binary_new(expr, operator, right.val))

comparison(p) ==
    LET expr == rule("term", p)
    IN  IF expr.ok THEN comparison_loop(expr.st, expr.val) ELSE expr

RECURSIVE equality_loop(_, _)
equality_loop(p, expr) ==
    LET m == match_then_advance(p, {"BANG_EQUAL", "EQUAL_EQUAL"})
        operator == previous(m.st)
        right == rule("comparison", m.st)
    IN  CASE ~m.ok -> Ok(p, expr)
          [] ~right.ok -> right
          [] OTHER -> equality_loop(right.st, Binary_new(expr, operator, right.val))

equality(p) ==
    LET expr == rule("comparison", p)
    IN  IF expr.ok THEN equality_loop(expr.st, expr.val) ELSE expr

RECURSIVE and_loop(_, _)
and_loop(p, left) ==
    LET m == match_then_advance(p, {"AND"})
        operator == previous(m.st)
        right == rule("equality", m.st)
    IN  CASE ~m.ok -> Ok(p, left)
          [] ~right.ok -> right
          [] OTHER -> and_loop(right.st, Logical_new(left, operator, right.val))

and(p) ==
    LET left == rule("equality", p)
    IN  IF left.ok THEN and_loop(left.st, left.val) ELSE left

RECURSIVE or_loop(_, _)
or_loop(p, left) ==
    LET m == match_then_advance(p, {"OR"})
        operator == previous(m.st)
        right == rule("and", m.st)
    IN  CASE ~m.ok -> Ok(p, left)
          [] ~right.ok -> right
          [] OTHER -> or_loop(right.st, Logical_new(left, operator, right.val))

or(p) ==
    LET left == rule("and", p)
    IN  IF left.ok THEN or_loop(left.st, left.val) ELSE left

RECURSIVE assignment(_)
assignment(p) ==
    LET expr == rule("or", p)
        m == match_then_advance(expr.st, {"EQUAL"})
        value == assignment(m.st)
        e == ParserError_new(previous(value.st), "Invalid assignment target")
    IN  CASE ~expr.ok -> expr
          [] ~m.ok -> Ok(m.st, expr.val)
          [] ~value.ok -> value
          [] expr.val.node = "VarExpr" ->
                Ok(value.st, Assignment_new(expr.val.name, value.val))
          [] OTHER ->
                Ok([value.st EXCEPT !.stdout = Append(@, ParserError_fmt(e))], expr.val)

expression(p) == assignment(p)

expression_statement(p) ==
    LET expr == rule("expression", p)
        semi == consume(expr.st, "SEMICOLON", "expect ';' after expression.")
    IN  CASE ~expr.ok -> expr
          [] ~semi.ok -> semi
          [] OTHER -> Ok(semi.st, ExprStmt(expr.val))

RECURSIVE block_statement_loop(_, _)
block_statement_loop(p, block) ==
    IF ~check(p, "RIGHT_BRACE") /\ ~end(p)
    THEN LET stmt == rule("declaration", p)
         IN  IF stmt.ok THEN block_statement_loop(stmt.st, Append(block, stmt.val))
             ELSE block_statement_loop(stmt.st, block)
    ELSE Ok(p, block)

\* the while loop has no early return: block.ok always holds
block_statement(p) ==
    LET block == block_statement_loop(p, <<>>)
        rb == consume(block.st, "RIGHT_BRACE", "expect '}' after block.")
    IN  CASE ~block.ok -> block
          [] ~rb.ok -> rb
          [] OTHER -> Ok(rb.st, BlockStmt(block.val))

while_statement(p) ==
    LET lp == consume(p, "LEFT_PAREN", "expect '(' after 'while'.")
        condition == rule("expression", lp.st)
        rp == consume(condition.st, "RIGHT_PAREN", "expect ')' after condition.")
        body == rule("statement", rp.st)
    IN  CASE ~lp.ok -> lp
          [] ~condition.ok -> condition
          [] ~rp.ok -> rp
          [] ~body.ok -> body
          [] OTHER -> Ok(body.st, WhileStmtInner_new(condition.val, body.val))

return_statement(p) ==
    LET keyword == previous(p)
        value == IF check(p, "SEMICOLON") THEN Ok(p, None) ELSE rule("expression", p)
        semi == consume(value.st, "SEMICOLON", "expect ';' after return value.")
    IN  CASE ~value.ok -> value
          [] ~semi.ok -> semi
          [] OTHER -> Ok(semi.st, ReturnStmtInner_new(keyword, value.val))

print_statement(p) ==
    LET expr == rule("expression", p)
        semi == consume(expr.st, "SEMICOLON", "expect ';' after value.")
    IN  CASE ~expr.ok -> expr
          [] ~semi.ok -> semi
          [] OTHER -> Ok(semi.st, PrintStmt(expr.val))

if_statement(p) ==
    LET lp == consume(p, "LEFT_PAREN", "expect '(' after 'if'.")
        condition == rule("expression", lp.st)
        rp == consume(condition.st, "RIGHT_PAREN", "expect ')' after if condition.")
        then_branch == rule("statement", rp.st)
        m == match_then_advance(then_branch.st, {"ELSE"})
        else_branch == IF m.ok THEN rule("statement", m.st) ELSE Ok(m.st, None)
    IN  CASE ~lp.ok -> lp
          [] ~condition.ok -> condition
          [] ~rp.ok -> rp
          [] ~then_branch.ok -> then_branch
          [] ~else_branch.ok -> else_branch
          [] OTHER -> Ok(else_branch.st,
                         IfStmtInner_new(condition.val, then_branch.val,
                                         else_branch.val))

var_declaration(p) ==
    LET name == consume(p, "IDENTIFIER", "Expect variable name")
        m == match_then_advance(name.st, {"EQUAL"})
        init == IF m.ok THEN rule("expression", m.st) ELSE Ok(m.st, None)
        semi == consume(init.st, "SEMICOLON", "Expect ; after variable declaration")
    IN  CASE ~name.ok -> name
          [] ~init.ok -> init
          [] ~semi.ok -> semi
          [] OTHER -> Ok(semi.st, VarStmt(name.val, init.val))

\* a clause of for: absent (None) when the token that closes it is next
for_clause(p, closing) ==
    IF check(p, closing) THEN Ok(p, None) ELSE rule("expression", p)

\* the three `body = match ...` of for_statement
for_desugar(initializer, condition, increment, body) ==
    LET body1 == IF increment = None THEN body
                 ELSE BlockStmt(<<body, ExprStmt(increment)>>)
        body2 == IF condition = None THEN body1
                 ELSE WhileStmtInner_new(condition, body1)
    IN  IF initializer = None THEN body2 ELSE BlockStmt(<<initializer, body2>>)

for_statement(p) ==
    LET lp == consume(p, "LEFT_PAREN", "expect '(' after 'for'.")
        m1 == match_then_advance(lp.st, {"SEMICOLON"})
        m2 == match_then_advance(lp.st, {"VAR"})
        initializer == CASE m1.ok -> Ok(m1.st, None)
                         [] m2.ok -> rule("var_declaration", m2.st)
                         [] OTHER -> rule("expression_statement", lp.st)
        condition == for_clause(initializer.st, "SEMICOLON")
        semi == consume(condition.st, "SEMICOLON", "expect ';' after loop condition.")
        increment == for_clause(semi.st, "RIGHT_PAREN")
        rp == consume(increment.st, "RIGHT_PAREN", "expect ')' after for clauses.")
        body == rule("statement", rp.st)
    IN  CASE ~lp.ok -> lp
          [] ~initializer.ok -> initializer
          [] ~condition.ok -> condition
          [] ~semi.ok -> semi
          [] ~increment.ok -> increment
          [] ~rp.ok -> rp
          [] ~body.ok -> body
          [] OTHER -> Ok(body.st, for_desugar(initializer.val, condition.val,
                                              increment.val, body.val))

statement(p) ==
    LET m1 == match_then_advance(p, {"FOR"})
        m2 == match_then_advance(p, {"IF"})
        m3 == match_then_advance(p, {"PRINT"})
        m4 == match_then_advance(p, {"RETURN"})
        m5 == match_then_advance(p, {"WHILE"})
        m6 == match_then_advance(p, {"LEFT_BRACE"})
    IN  CASE m1.ok -> for_statement(m1.st)
          [] m2.ok -> if_statement(m2.st)
          [] m3.ok -> print_statement(m3.st)
          [] m4.ok -> return_statement(m4.st)
          [] m5.ok -> while_statement(m5.st)
          [] m6.ok -> block_statement(m6.st)
          [] OTHER -> expression_statement(p)

\* the next n iterations of the params loop of function, or those up to the
\* one that leaves it (done): one iteration (step) when n = 1, and otherwise
\* the first half of them and then the others
RECURSIVE function_params_loop(_, _, _)
function_params_loop(p, params, n) ==
    LET c == consume(p, "IDENTIFIER", "expect parameter name.")
        m == match_then_advance(c.st, {"COMMA"})
        step == CASE Len(params) >= MaxParams ->
                        [r |-> Err(p, ParserError_new(peek(p),
                                       "Can't have more than 255 parameters.")),
                         done |-> TRUE]
                  [] ~c.ok -> [r |-> c, done |-> TRUE]
                  [] OTHER -> [r |-> Ok(m.st, Append(params, c.val)), done |-> ~m.ok]
        half == function_params_loop(p, params, n \div 2)
    IN  CASE n = 1 -> step
          [] half.done -> half
          [] OTHER -> function_params_loop(half.r.st, half.r.val, n - n \div 2)

\* the params loop: iteration MaxParams + 1, if it comes to it, returns
function_params(p, params) == function_params_loop(p, params, MaxParams + 1).r

function(p) ==
    LET name == consume(p, "IDENTIFIER", "expect function name.")
        lp == consume(name.st, "LEFT_PAREN", "expect '(' after function name.")
        params == IF check(lp.st, "RIGHT_PAREN") THEN Ok(lp.st, <<>>)
                  ELSE function_params(lp.st, <<>>)
        rp == consume(params.st, "RIGHT_PAREN", "expect ')' after parameters")
        lb == consume(rp.st, "LEFT_BRACE", "expect '{' before function body.")
        body == rule("block_statement", lb.st)
    IN  CASE ~name.ok -> name
          [] ~lp.ok -> lp
          [] ~params.ok -> params
          [] ~rp.ok -> rp
          [] ~lb.ok -> lb
          [] ~body.ok -> body
          [] OTHER -> Ok(body.st,
                         FunctionStmtInner_new(name.val, params.val, body.val))

\* declaration as it would be if the catch arm left the status alone
declaration_keeps_status(p) ==
    LET m1 == match_then_advance(p, {"FUN"})
        m2 == match_then_advance(m1.st, {"VAR"})
        r == CASE m1.ok -> rule("function", m1.st)
               [] m2.ok -> rule("var_declaration", m2.st)
               [] OTHER -> rule("statement", m2.st)
    IN  IF r.ok THEN r
        ELSE Err(synchronize([r.st EXCEPT
                                 !.stderr = Append(@, ParserError_fmt(r.val))]),
                 None)

\* the scrutinee of the match in declaration
declaration_rule(p) ==
    LET m1 == match_then_advance(p, {"FUN"})
        m2 == match_then_advance(m1.st, {"VAR"})
    IN  CASE m1.ok -> rule("function", m1.st)
          [] m2.ok -> rule("var_declaration", m2.st)
          [] OTHER -> rule("statement", m2.st)

declaration(p) ==
    LET r == declaration_rule(p)
    IN  IF r.ok THEN r
        ELSE Err(synchronize([r.st EXCEPT
                                 !.stderr = Append(@, ParserError_fmt(r.val)),
                                 !.status = "Panic"]),
                 None)

\* a method call on the parser: the rule of that name, applied to p
rule(name, p) ==
    CASE name = "declaration" -> declaration(p)
      [] name = "statement" -> statement(p)
      [] name = "expression" -> expression(p)
      [] name = "and" -> and(p)
      [] name = "equality" -> equality(p)
      [] name = "comparison" -> comparison(p)
      [] name = "term" -> term(p)
      [] name = "factor" -> factor(p)
      [] name = "unary" -> unary(p)
      [] name = "var_declaration" -> var_declaration(p)
      [] name = "function" -> function(p)
      [] name = "block_statement" -> block_statement(p)
      [] name = "or" -> or(p)
      [] name = "primary" -> primary(p)
      [] OTHER -> expression_statement(p)

(***************************************************************************)
(* callable.rs: CallableRet and Callable.                                  *)
(***************************************************************************)
CallableRet_Value(v) == [kind |-> "Value", value |-> v]

CallableRet_Callable(c) == [kind |-> "Callable", callable |-> c]

Native == [kind |-> "Native"]

Nil == CallableRet_Value(NilLiteral)

Unit == [kind |-> "Unit"]

\* FunctionInner::new as interpreter.rs:466 calls it, with the environment that
\* is active at the declaration.  callable.rs:24-34 keeps the declaration only:
\* closure is carried here to name the declaration-time environment and is
\* read by no operator that models the code.
FunctionInner_new(decl, closure) ==
    [kind |-> "Function", declaration |-> decl, closure |-> closure]

arity(callable) ==
    IF callable.kind = "Native" THEN 0 ELSE Len(callable.declaration.params)

Callable_fmt(callable) ==
    IF callable.kind = "Native" THEN "<native fn>"
    ELSE "<fn " \o callable.declaration.name.lexeme \o ">"

CallableRet_fmt(v) ==
    IF v.kind = "Value" THEN LiteralValue_fmt(v.value) ELSE Callable_fmt(v.callable)

IsNumber(v) == v.kind = "Value" /\ v.value.tag = "NumberLiteral"

IsString(v) == v.kind = "Value" /\ v.value.tag = "StringLiteral"

IsBool(v) == v.kind = "Value" /\ v.value.tag = "BoolLiteral"

IsNil(v) == v.kind = "Value" /\ v.value.tag = "NilLiteral"

Number(n) == CallableRet_Value(NumberLiteral(n))

Bool(b) == CallableRet_Value(BoolLiteral(b))

(***************************************************************************)
(* interpreter.rs: RuntimeException.                                       *)
(***************************************************************************)
InvalidOperand(ttype, desc, line) ==
    [kind |-> "InvalidOperand", ttype |-> ttype, desc |-> desc, line |-> line]

UndefinedVar(token) == [kind |-> "UndefinedVar", token |-> token]

InvalidCallable(token, desc) ==
    [kind |-> "InvalidCallable", token |-> token, desc |-> desc]

UnmatchedArity(expected, got) ==
    [kind |-> "UnmatchedArity", expected |-> expected, got |-> got]

FunctionReturn(value) == [kind |-> "FunctionReturn", value |-> value]

\* impl Display for RuntimeException; the FunctionReturn arm is todo!()
RuntimeException_fmt(e) ==
    CASE e.kind = "InvalidOperand" -> Ok(Unit, e.desc \o "\n[line " \o NatToStr(e.line) \o "]")
      [] e.kind = "UndefinedVar" ->
            Ok(Unit, "Undefined variable '" \o e.token.lexeme \o "'.")
      [] e.kind = "InvalidCallable" -> Ok(Unit, "Can only call functions and classes.")
      [] e.kind = "UnmatchedArity" ->
            Ok(Unit, "Expected " \o NatToStr(e.expected) \o " arguments but got "
                            \o NatToStr(e.got) \o ".")
      [] OTHER -> Err(Unit, Panic("not yet implemented"))

(***************************************************************************)
(* environment.rs.  The Rc<RefCell<Environment>> values of a run are the   *)
(* entries of the sequence envs, and a reference to one is its index; the  *)
(* enclosing of the global frame (None) is 0.  A frame is never removed    *)
(* from envs: one that no Rc refers to any more is merely unreachable.     *)
(***************************************************************************)
Environment_new == [enclosing |-> 0, map |-> [n \in {} |-> Nil]]

\* new_with_enclosing as it would be if it left the new frame without a parent
new_without_enclosing(enclosing) == [enclosing |-> 0, map |-> [n \in {} |-> Nil]]

new_with_enclosing(enclosing) == [enclosing |-> enclosing, map |-> [n \in {} |-> Nil]]

\* define as it would be if it kept a binding the frame already holds
define_if_absent(env, name, value) ==
    IF name \in DOMAIN env.map THEN env
    ELSE [env EXCEPT !.map = [n \in DOMAIN env.map \cup {name} |->
                                 IF n = name
                                 THEN (IF value = None THEN Nil ELSE value)
                                 ELSE env.map[n]]]

define(env, name, value) ==
    [env EXCEPT !.map = [n \in DOMAIN env.map \cup {name} |->
                            IF n = name
                            THEN (IF value = None THEN Nil ELSE value)
                            ELSE env.map[n]]]

\* assign as it would be if a total miss defined the name in the global frame
RECURSIVE assign_defines(_, _, _, _)
assign_defines(envs, e, name, value) ==
    IF name.lexeme \in DOMAIN envs[e].map
    THEN Ok([envs EXCEPT ![e].map[name.lexeme] = value], envs[e].map[name.lexeme])
    ELSE IF envs[e].enclosing # 0
         THEN assign_defines(envs, envs[e].enclosing, name, value)
    ELSE Ok([envs EXCEPT ![e] = define(@, name.lexeme, value)], Nil)

RECURSIVE assign(_, _, _, _)
assign(envs, e, name, value) ==
    IF name.lexeme \in DOMAIN envs[e].map
    THEN Ok([envs EXCEPT ![e].map[name.lexeme] = value], envs[e].map[name.lexeme])
    ELSE IF envs[e].enclosing # 0 THEN assign(envs, envs[e].enclosing, name, value)
    ELSE Err(envs, UndefinedVar(name))

\* get as it would be if the search went from the global frame inwards
RECURSIVE get_farthest(_, _, _)
get_farthest(envs, e, name) ==
    LET up == IF envs[e].enclosing # 0
              THEN get_farthest(envs, envs[e].enclosing, name)
              ELSE Err(envs, UndefinedVar(name))
    IN  CASE up.ok -> up
          [] name.lexeme \in DOMAIN envs[e].map -> Ok(envs, envs[e].map[name.lexeme])
          [] OTHER -> up

RECURSIVE get(_, _, _)
get(envs, e, name) ==
    IF name.lexeme \in DOMAIN envs[e].map THEN Ok(envs, envs[e].map[name.lexeme])
    ELSE IF envs[e].enclosing # 0 THEN get(envs, envs[e].enclosing, name)
    ELSE Err(envs, UndefinedVar(name))

(***************************************************************************)
(* interpreter.rs.  An interpreter value is                                *)
(*   envs         the frames created so far                                *)
(*   environment  Interpreter::environment, an index of envs               *)
(*   stdout       the lines printed by println!                            *)
(*   now          the reading of the system clock that clock() returns     *)
(*   log          one record per finished execute_block and per finished   *)
(*                call of a user function: instrumentation that no         *)
(*                operator reads back                                      *)
(***************************************************************************)
Interpreter_new(now) ==
    [envs |-> <<define(Environment_new, "clock", CallableRet_Callable(Native))>>,
     environment |-> 1, stdout |-> <<>>, now |-> now, log |-> <<>>]

\* the outcome of a result, as the log records it
Outcome(r) == IF r.ok THEN "Ok" ELSE r.val.kind

is_true(st, literal_value) ==
    IF literal_value.kind = "Callable"
    THEN Err(st, Panic("not implemented: trusty of callable unimplemented!"))
    ELSE IF IsNumber(literal_value) \/ IsString(literal_value) THEN Ok(st, TRUE)
    ELSE IF IsBool(literal_value) THEN Ok(st, literal_value.value.val)
    ELSE Ok(st, FALSE)

is_equal(st, l, r) ==
    IF IsNil(l) THEN Ok(st, IsNil(r))
    ELSE IF IsNumber(l) THEN Ok(st, IsNumber(r) /\ l.value.val = r.value.val)
    ELSE IF IsBool(l) THEN Ok(st, IsBool(r) /\ l.value.val = r.value.val)
    ELSE IF IsString(l) THEN Ok(st, IsString(r) /\ l.value.val = r.value.val)
    ELSE Err(st, Panic("internal error: entered unreachable code"))

\* f64 division, exact on the integers it is used on here
Quotient(l, r) ==
    LET al == IF l < 0 THEN 0 - l ELSE l
        ar == IF r < 0 THEN 0 - r ELSE r
    IN  IF r # 0 /\ al % ar = 0
        THEN (IF (l < 0) = (r < 0) THEN al \div ar ELSE 0 - (al \div ar))
        ELSE [inexact |-> <<l, r>>]

\* the arms of visit_binary for - * / > >= < <=: both operands must be Numbers
arithmetic(st, ttype, left_val, right_val, line) ==
    IF ~IsNumber(left_val) \/ ~IsNumber(right_val)
    THEN Err(st, InvalidOperand("MINUS", "Operands must be a number.", line))
    ELSE LET l == left_val.value.val
             r == right_val.value.val
         IN  CASE ttype = "MINUS" -> Ok(st, Number(l - r))
               [] ttype = "STAR" -> Ok(st, Number(l * r))
               [] ttype = "SLASH" -> Ok(st, Number(Quotient(l, r)))
               [] ttype = "GREATER" -> Ok(st, Bool(l > r))
               [] ttype = "GREATER_EQUAL" -> Ok(st, Bool(l >= r))
               [] ttype = "LESS" -> Ok(st, Bool(l < r))
               [] OTHER -> Ok(st, Bool(l <= r))

\* the visitor methods call one another through accept, defined after them
RECURSIVE accept(_, _)

\* expr.accept(self)
evaluate(st, expr) == accept(st, expr)

\* stmt.accept(self)
execute(st, stmt) == accept(st, stmt)

\* visit_binary as it would be if + turned the right operand of a String into
\* a String
visit_binary_concatenates(st, binary_expr) ==
    LET left == evaluate(st, binary_expr.left)
        right == evaluate(left.st, binary_expr.right)
        s == right.st
        left_val == left.val
        right_val == right.val
        ttype == binary_expr.operator.ttype
        line == binary_expr.operator.line
        eq == is_equal(s, left_val, right_val)
    IN  CASE ~left.ok -> left
          [] ~right.ok -> right
          [] ttype \in {"MINUS", "STAR", "SLASH", "GREATER", "GREATER_EQUAL",
                        "LESS", "LESS_EQUAL"} ->
                arithmetic(s, ttype, left_val, right_val, line)
          [] ttype = "PLUS" /\ IsNumber(left_val) /\ IsNumber(right_val) ->
                Ok(s, Number(left_val.value.val + right_val.value.val))
          [] ttype = "PLUS" /\ IsString(left_val) ->
                Ok(s, CallableRet_Value(
                          StringLiteral(left_val.value.val \o CallableRet_fmt(right_val))))
          [] ttype = "PLUS" ->
                Err(s, InvalidOperand("MINUS",
                           "Operands must be two numbers or two strings.", line))
          [] ttype \in {"BANG_EQUAL", "EQUAL_EQUAL"} /\ ~eq.ok -> eq
          [] ttype = "BANG_EQUAL" -> Ok(s, Bool(~eq.val))
          [] ttype = "EQUAL_EQUAL" -> Ok(s, Bool(eq.val))
          [] OTHER -> Err(s, Panic("not implemented"))

\* visit_binary as it would be if it checked the left operand before it
\* evaluated the right one
visit_binary_checks_left_first(st, binary_expr) ==
    LET left == evaluate(st, binary_expr.left)
        right == evaluate(left.st, binary_expr.right)
        s == right.st
        left_val == left.val
        right_val == right.val
        ttype == binary_expr.operator.ttype
        line == binary_expr.operator.line
        eq == is_equal(s, left_val, right_val)
    IN  CASE ~left.ok -> left
          [] ttype \notin {"BANG_EQUAL", "EQUAL_EQUAL"}
                /\ ~IsNumber(left_val) /\ ~IsString(left_val) ->
                Err(left.st, InvalidOperand("MINUS", "Operands must be a number.", line))
          [] ~right.ok -> right
          [] ttype \in {"MINUS", "STAR", "SLASH", "GREATER", "GREATER_EQUAL",
                        "LESS", "LESS_EQUAL"} ->
                arithmetic(s, ttype, left_val, right_val, line)
          [] ttype = "PLUS" /\ IsNumber(left_val) /\ IsNumber(right_val) ->
                Ok(s, Number(left_val.value.val + right_val.value.val))
          [] ttype = "PLUS" /\ IsString(left_val) /\ IsString(right_val) ->
                Ok(s, CallableRet_Value(
                          StringLiteral(left_val.value.val \o right_val.value.val)))
          [] ttype = "PLUS" ->
                Err(s, InvalidOperand("MINUS",
                           "Operands must be two numbers or two strings.", line))
          [] ttype \in {"BANG_EQUAL", "EQUAL_EQUAL"} /\ ~eq.ok -> eq
          [] ttype = "BANG_EQUAL" -> Ok(s, Bool(~eq.val))
          [] ttype = "EQUAL_EQUAL" -> Ok(s, Bool(eq.val))
          [] OTHER -> Err(s, Panic("not implemented"))

visit_binary(st, binary_expr) ==
    LET left == evaluate(st, binary_expr.left)
        right == evaluate(left.st, binary_expr.right)
        s == right.st
        left_val == left.val
        right_val == right.val
        ttype == binary_expr.operator.ttype
        line == binary_expr.operator.line
        eq == is_equal(s, left_val, right_val)
    IN  CASE ~left.ok -> left
          [] ~right.ok -> right
          [] ttype \in {"MINUS", "STAR", "SLASH", "GREATER", "GREATER_EQUAL",
                        "LESS", "LESS_EQUAL"} ->
                arithmetic(s, ttype, left_val, right_val, line)
          [] ttype = "PLUS" /\ IsNumber(left_val) /\ IsNumber(right_val) ->
                Ok(s, Number(left_val.value.val + right_val.value.val))
          [] ttype = "PLUS" /\ IsString(left_val) /\ IsString(right_val) ->
                Ok(s, CallableRet_Value(
                          StringLiteral(left_val.value.val \o right_val.value.val)))
          [] ttype = "PLUS" ->
                Err(s, InvalidOperand("MINUS",
                           "Operands must be two numbers or two strings.", line))
          [] ttype \in {"BANG_EQUAL", "EQUAL_EQUAL"} /\ ~eq.ok -> eq
          [] ttype = "BANG_EQUAL" -> Ok(s, Bool(~eq.val))
          [] ttype = "EQUAL_EQUAL" -> Ok(s, Bool(eq.val))
          [] OTHER -> Err(s, Panic("not implemented"))

visit_unary(st, unary_expr) ==
    LET right == evaluate(st, unary_expr.right)
        t == is_true(right.st, right.val)
    IN  CASE ~right.ok -> right
          [] unary_expr.operator.ttype = "MINUS" /\ IsNumber(right.val) ->
                Ok(right.st, Number(0 - right.val.value.val))
          [] unary_expr.operator.ttype = "MINUS" ->
                Err(right.st, InvalidOperand("MINUS", "Operand must be a number.",
                                             unary_expr.operator.line))
          [] unary_expr.operator.ttype = "BANG" /\ ~t.ok -> t
          [] unary_expr.operator.ttype = "BANG" -> Ok(right.st, Bool(~t.val))
          [] OTHER -> Err(right.st, Panic("not implemented"))

visit_literal(st, literal_expr) == Ok(st, CallableRet_Value(literal_expr.value))

visit_grouping(st, grouping_expr) == evaluate(st, grouping_expr.expression)

visit_var(st, var_expr) ==
    LET r == get(st.envs, st.environment, var_expr.name)
    IN  IF r.ok THEN Ok(st, r.val) ELSE Err(st, r.val)

visit_assignment(st, assignment_expr) ==
    LET value == evaluate(st, assignment_expr.value)
        r == assign(value.st.envs, value.st.environment, assignment_expr.name, value.val)
    IN  CASE ~value.ok -> value
          [] ~r.ok -> Err(value.st, r.val)
          [] OTHER -> Ok([value.st EXCEPT !.envs = r.st], value.val)

visit_logical(st, logical_expr) ==
    LET left == evaluate(st, logical_expr.left)
        t == is_true(left.st, left.val)
    IN  CASE ~left.ok -> left
          [] ~t.ok -> t
          [] logical_expr.operator.ttype = "OR" /\ t.val -> left
          [] logical_expr.operator.ttype # "OR" /\ ~t.val -> left
          [] OTHER -> evaluate(left.st, logical_expr.right)

\* the for loop of execute_block as it would be if it went on after the Err
\* of a failed statement
RECURSIVE execute_block_loop_continues(_, _, _)
execute_block_loop_continues(st, block, i) ==
    LET r == execute(st, block[i])
    IN  CASE i > Len(block) -> Ok(st, Unit)
          [] r.ok \/ r.val.kind \notin {"FunctionReturn", "Panic"} ->
                execute_block_loop_continues(r.st, block, i + 1)
          [] OTHER -> r

\* the for loop of execute_block: the first Err ends it
RECURSIVE execute_block_loop(_, _, _)
execute_block_loop(st, block, i) ==
    LET r == execute(st, block[i])
    IN  CASE i > Len(block) -> Ok(st, Unit)
          [] r.ok -> execute_block_loop(r.st, block, i + 1)
          [] OTHER -> r

\* execute_block as it would be if `?` left the loop before the restore
execute_block_early_return(st, block, block_env) ==
    LET prev_env == st.environment
        entered == [st EXCEPT !.envs = Append(@, block_env),
                              !.environment = Len(st.envs) + 1]
        r == execute_block_loop(entered, block.stmts, 1)
        res == IF r.ok THEN Ok([r.st EXCEPT !.environment = prev_env], Unit)
               ELSE r
    IN  [res EXCEPT !.st.log = Append(@,
             [ev |-> "block",
              frame |-> Len(st.envs) + 1,
              parent |-> block_env.enclosing,
              before |-> prev_env,
              after |-> res.st.environment,
              outcome |-> Outcome(r)])]

execute_block(st, block, block_env) ==
    LET prev_env == st.environment
        entered == [st EXCEPT !.envs = Append(@, block_env),
                              !.environment = Len(st.envs) + 1]
        r == execute_block_loop(entered, block.stmts, 1)
        res == CASE r.ok -> Ok([r.st EXCEPT !.environment = prev_env], Unit)
                 [] r.val.kind = "Panic" -> r
                 [] OTHER -> Err([r.st EXCEPT !.environment = prev_env], r.val)
    IN  [res EXCEPT !.st.log = Append(@,
             [ev |-> "block",
              frame |-> Len(st.envs) + 1,
              parent |-> block_env.enclosing,
              before |-> prev_env,
              after |-> res.st.environment,
              outcome |-> Outcome(r)])]

\* the frame of a call: a child of the environment current at the call, with
\* the parameters defined in order; arguments[i] past the end panics
RECURSIVE func_env_define(_, _, _, _)
func_env_define(func_env, params, arguments, i) ==
    CASE i > Len(params) -> Ok(func_env, Unit)
      [] i > Len(arguments) -> Err(func_env, Panic("index out of bounds"))
      [] OTHER -> func_env_define(define(func_env, params[i].lexeme, arguments[i]),
                                  params, arguments, i + 1)

\* call as it would be if the FunctionReturn arms were missing
Callable_call_passes_return(func, interpreter, arguments) ==
    LET func_env == func_env_define(new_with_enclosing(interpreter.environment),
                                    func.declaration.params, arguments, 1)
        body == func.declaration.body
        r == execute_block(interpreter, body, func_env.st)
        res == CASE ~func_env.ok -> Err(interpreter, func_env.val)
                 [] body.node # "BlockStmt" ->
                       Err(interpreter, Panic("internal error: entered unreachable code"))
                 [] r.ok -> Ok(r.st, Nil)
                 [] OTHER -> r
    IN  IF func.kind = "Native" THEN Ok(interpreter, Number(interpreter.now))
        ELSE [res EXCEPT !.st.log = Append(@,
                  [ev |-> "call",
                   name |-> func.declaration.name.lexeme,
                   closure |-> func.closure,
                   arity |-> arity(func),
                   nargs |-> Len(arguments),
                   frame |-> Len(interpreter.envs) + 1,
                   parent |-> func_env.st.enclosing,
                   before |-> interpreter.environment,
                   after |-> res.st.environment,
                   body_outcome |-> IF func_env.ok THEN Outcome(r) ELSE "Panic",
                   body_value |-> IF func_env.ok THEN r.val ELSE func_env.val,
                   outcome |-> Outcome(res),
                   value |-> res.val])]

Callable_call(func, interpreter, arguments) ==
    LET func_env == func_env_define(new_with_enclosing(interpreter.environment),
                                    func.declaration.params, arguments, 1)
        body == func.declaration.body
        r == execute_block(interpreter, body, func_env.st)
        res == CASE ~func_env.ok -> Err(interpreter, func_env.val)
                 [] body.node # "BlockStmt" ->
                       Err(interpreter, Panic("internal error: entered unreachable code"))
                 [] r.ok -> Ok(r.st, Nil)
                 [] r.val.kind = "FunctionReturn" ->
                       Ok(r.st, IF r.val.value = None THEN Nil ELSE r.val.value)
                 [] OTHER -> r
    IN  IF func.kind = "Native" THEN Ok(interpreter, Number(interpreter.now))
        ELSE [res EXCEPT !.st.log = Append(@,
                  [ev |-> "call",
                   name |-> func.declaration.name.lexeme,
                   closure |-> func.closure,
                   arity |-> arity(func),
                   nargs |-> Len(arguments),
                   frame |-> Len(interpreter.envs) + 1,
                   parent |-> func_env.st.enclosing,
                   before |-> interpreter.environment,
                   after |-> res.st.environment,
                   body_outcome |-> IF func_env.ok THEN Outcome(r) ELSE "Panic",
                   body_value |-> IF func_env.ok THEN r.val ELSE func_env.val,
                   outcome |-> Outcome(res),
                   value |-> res.val])]

\* the for loop of visit_call: arguments evaluated so far, in order
RECURSIVE visit_call_arguments(_, _, _)
visit_call_arguments(st, call_arguments, arguments) ==
    LET arg == evaluate(st, call_arguments[Len(arguments) + 1])
    IN  CASE Len(arguments) = Len(call_arguments) -> Ok(st, arguments)
          [] arg.ok -> visit_call_arguments(arg.st, call_arguments,
                                            Append(arguments, arg.val))
          [] OTHER -> arg

\* visit_call as it would be without the comparison with arity()
visit_call_unchecked(st, call_expr) ==
    LET callee == evaluate(st, call_expr.callee)
        arguments == visit_call_arguments(callee.st, call_expr.arguments, <<>>)
    IN  CASE ~callee.ok -> callee
          [] ~arguments.ok -> arguments
          [] callee.val.kind = "Callable" ->
                Callable_call(callee.val.callable, arguments.st, arguments.val)
          [] OTHER ->
                Err(arguments.st,
                    InvalidCallable(call_expr.paren, "Can only call functions and classes"))

\* visit_call as it would be if the callee were matched before the arguments
\* are evaluated
visit_call_checks_first(st, call_expr) ==
    LET callee == evaluate(st, call_expr.callee)
        arguments == visit_call_arguments(callee.st, call_expr.arguments, <<>>)
    IN  CASE ~callee.ok -> callee
          [] callee.val.kind # "Callable" ->
                Err(callee.st,
                    InvalidCallable(call_expr.paren, "Can only call functions and classes"))
          [] Len(call_expr.arguments) # arity(callee.val.callable) ->
                Err(callee.st, UnmatchedArity(arity(callee.val.callable),
                                              Len(call_expr.arguments)))
          [] ~arguments.ok -> arguments
          [] OTHER -> Callable_call(callee.val.callable, arguments.st, arguments.val)

visit_call(st, call_expr) ==
    LET callee == evaluate(st, call_expr.callee)
        arguments == visit_call_arguments(callee.st, call_expr.arguments, <<>>)
    IN  CASE ~callee.ok -> callee
          [] ~arguments.ok -> arguments
          [] callee.val.kind # "Callable" ->
                Err(arguments.st,
                    InvalidCallable(call_expr.paren, "Can only call functions and classes"))
          [] Len(arguments.val) # arity(callee.val.callable) ->
                Err(arguments.st, UnmatchedArity(arity(callee.val.callable),
                                                 Len(arguments.val)))
          [] OTHER -> Callable_call(callee.val.callable, arguments.st, arguments.val)

visit_expr(st, stmt) ==
    LET r == evaluate(st, stmt.expr) IN IF r.ok THEN Ok(r.st, Unit) ELSE r

visit_print(st, stmt) ==
    LET rst == evaluate(st, stmt.expr)
    IN  IF rst.ok
        THEN Ok([rst.st EXCEPT !.stdout = Append(@, CallableRet_fmt(rst.val))], Unit)
        ELSE rst

\* visit_var as it would be if it defined the name before it evaluated the
\* initializer
visit_var_stmt_defines_first(st, stmt) ==
    LET s0 == [st EXCEPT !.envs[st.environment] = define(@, stmt.name.lexeme, None)]
        val == IF stmt.init = None THEN Ok(s0, None) ELSE evaluate(s0, stmt.init)
        s == val.st
    IN  IF val.ok
        THEN Ok([s EXCEPT !.envs[s.environment] = define(@, stmt.name.lexeme, val.val)],
                Unit)
        ELSE val

visit_var_stmt(st, stmt) ==
    LET val == IF stmt.init = None THEN Ok(st, None) ELSE evaluate(st, stmt.init)
        s == val.st
    IN  IF val.ok
        THEN Ok([s EXCEPT !.envs[s.environment] = define(@, stmt.name.lexeme, val.val)],
                Unit)
        ELSE val

visit_block(st, stmt) ==
    execute_block(st, stmt, new_with_enclosing(st.environment))

visit_if(st, branch) ==
    LET condition == evaluate(st, branch.condition)
        t == is_true(condition.st, condition.val)
    IN  CASE ~condition.ok -> condition
          [] ~t.ok -> t
          [] t.val -> execute(condition.st, branch.then_branch)
          [] branch.else_branch = None -> Ok(condition.st, Unit)
          [] OTHER -> execute(condition.st, branch.else_branch)

RECURSIVE visit_while_loop(_, _, _)
visit_while_loop(st, while_stmt, condition) ==
    LET t == is_true(st, condition)
        body == execute(st, while_stmt.body)
        next == evaluate(body.st, while_stmt.condition)
    IN  CASE ~t.ok -> t
          [] ~t.val -> Ok(st, Unit)
          [] ~body.ok -> body
          [] ~next.ok -> next
          [] OTHER -> visit_while_loop(next.st, while_stmt, next.val)

visit_while(st, while_stmt) ==
    LET condition == evaluate(st, while_stmt.condition)
    IN  IF condition.ok THEN visit_while_loop(condition.st, while_stmt, condition.val)
        ELSE condition

visit_function(st, func_stmt) ==
    LET func == FunctionInner_new(func_stmt, st.environment)
    IN  Ok([st EXCEPT !.envs[st.environment] =
                define(@, func_stmt.name.lexeme, CallableRet_Callable(func))],
           Unit)

visit_return(st, return_stmt) ==
    LET value == evaluate(st, return_stmt.value)
    IN  CASE return_stmt.value = None -> Err(st, FunctionReturn(None))
          [] value.ok -> Err(value.st, FunctionReturn(value.val))
          [] OTHER -> value

\* Expr::accept and Stmt::accept: the visitor method of the node's variant
accept(st, node) ==
    CASE node.node = "BinaryExpr" -> visit_binary(st, node)
      [] node.node = "UnaryExpr" -> visit_unary(st, node)
      [] node.node = "LiteralExpr" -> visit_literal(st, node)
      [] node.node = "GroupingExpr" -> visit_grouping(st, node)
      [] node.node = "VarExpr" -> visit_var(st, node)
      [] node.node = "AssignmentExpr" -> visit_assignment(st, node)
      [] node.node = "LogicalExpr" -> visit_logical(st, node)
      [] node.node = "CallExpr" -> visit_call(st, node)
      [] node.node = "ExprStmt" -> visit_expr(st, node)
      [] node.node = "PrintStmt" -> visit_print(st, node)
      [] node.node = "VarStmt" -> visit_var_stmt(st, node)
      [] node.node = "BlockStmt" -> visit_block(st, node)
      [] node.node = "IfStmt" -> visit_if(st, node)
      [] node.node = "WhileStmt" -> visit_while(st, node)
      [] node.node = "FunctionStmt" -> visit_function(st, node)
      [] OTHER -> visit_return(st, node)

(***************************************************************************)
(* The input.  A program is written as the sequence of its lexemes, and    *)
(* Tokens gives the tokens the scanner makes of them (scanner.rs           *)
(* add_token, add_token_literal; the keyword table of token.rs), ending    *)
(* with EOF.  The lexeme "\n" is a line break: it makes no token and       *)
(* starts the next line.                                                   *)
(***************************************************************************)
KEYWORDS ==
    [w \in {"and", "class", "else", "false", "for", "fun", "if", "nil", "or",
            "print", "return", "super", "this", "true", "var", "while"} |->
        CASE w = "and" -> "AND" [] w = "class" -> "CLASS" [] w = "else" -> "ELSE"
          [] w = "false" -> "FALSE" [] w = "for" -> "FOR" [] w = "fun" -> "FUN"
          [] w = "if" -> "IF" [] w = "nil" -> "NIL" [] w = "or" -> "OR"
          [] w = "print" -> "PRINT" [] w = "return" -> "RETURN"
          [] w = "super" -> "SUPER" [] w = "this" -> "THIS" [] w = "true" -> "TRUE"
          [] w = "var" -> "VAR" [] OTHER -> "WHILE"]

Symbols ==
    [w \in {"(", ")", "{", "}", ",", ".", "-", "+", ";", "/", "*", "!", "!=", "=",
            "==", ">", ">=", "<", "<="} |->
        CASE w = "(" -> "LEFT_PAREN" [] w = ")" -> "RIGHT_PAREN"
          [] w = "{" -> "LEFT_BRACE" [] w = "}" -> "RIGHT_BRACE"
          [] w = "," -> "COMMA" [] w = "." -> "DOT" [] w = "-" -> "MINUS"
          [] w = "+" -> "PLUS" [] w = ";" -> "SEMICOLON" [] w = "/" -> "SLASH"
          [] w = "*" -> "STAR" [] w = "!" -> "BANG" [] w = "!=" -> "BANG_EQUAL"
          [] w = "=" -> "EQUAL" [] w = "==" -> "EQUAL_EQUAL" [] w = ">" -> "GREATER"
          [] w = ">=" -> "GREATER_EQUAL" [] w = "<" -> "LESS" [] OTHER -> "LESS_EQUAL"]

\* the number literals the programs use, by lexeme
Numerals ==
    [w \in {"0", "1", "2", "3", "4", "5", "6", "7", "8", "9"} |->
        CASE w = "0" -> 0 [] w = "1" -> 1 [] w = "2" -> 2 [] w = "3" -> 3
          [] w = "4" -> 4 [] w = "5" -> 5 [] w = "6" -> 6 [] w = "7" -> 7
          [] w = "8" -> 8 [] OTHER -> 9]

\* the string literals the programs use: lexeme (with its quotes) to value
Strings ==
    [w \in {"\"\"", "\"global\"", "\"block\"", "\"body\"", "\"s\"", "\"after\""} |->
        CASE w = "\"\"" -> "" [] w = "\"global\"" -> "global" [] w = "\"block\"" -> "block"
          [] w = "\"body\"" -> "body" [] w = "\"s\"" -> "s" [] OTHER -> "after"]

Word(w, line) ==
    [ (IF w \in DOMAIN Symbols THEN Token_new(Symbols[w], w, None)
       ELSE IF w \in DOMAIN KEYWORDS THEN Token_new(KEYWORDS[w], w, None)
       ELSE IF w \in DOMAIN Numerals
            THEN Token_new("NUMBER", w, NumberLiteral(Numerals[w]))
       ELSE IF w \in DOMAIN Strings
            THEN Token_new("STRING", w, StringLiteral(Strings[w]))
       ELSE Token_new("IDENTIFIER", w, None))
      EXCEPT !.line = line ]

\* the token of every word, on the line that the line breaks before it make,
\* and the EOF token of the last line
Tokens(words) ==
    LET breaks == {j \in 1..Len(words) : words[j] = "\n"}
        line(i) == 1 + Cardinality({j \in breaks : j <= i})
        all == [i \in 1..Len(words) |-> Word(words[i], line(i))]
    IN  Append(SelectSeq(all, LAMBDA t : t.lexeme # "\n"),
               [Token_new("EOF", "", None) EXCEPT !.line = line(Len(words))])

(***************************************************************************)
(* scanner.rs.  The source is a sequence of characters, each a string of   *)
(* one character; start and current count the characters before them, as   *)
(* the byte offsets of the Scanner do.  '\0', which peek returns at the end *)
(* of the source, is "NUL".  stderr holds the lines written by eprintln!.   *)
(***************************************************************************)
UnknownChar(line, c) == [kind |-> "UnknownChar", line |-> line, c |-> c]

NonTerminatedString(line) == [kind |-> "NonTerminatedString", line |-> line]

ScannerError_fmt(e) ==
    IF e.kind = "UnknownChar"
    THEN "[line " \o NatToStr(e.line) \o "] Error: Unexpected character: " \o e.c
    ELSE "[line " \o NatToStr(e.line) \o "] Error: Unterminated string."

is_digit(c) == c \in DOMAIN Numerals

is_alpha(c) ==
    c \in {"a", "b", "c", "d", "e", "f", "g", "h", "i", "j", "k", "l", "m", "n", "o", "p", "q", "r", "s", "t", "u", "v", "w", "x", "y", "z",
     "A", "B", "C", "D", "E", "F", "G", "H", "I", "J", "K", "L", "M", "N", "O", "P", "Q", "R", "S", "T", "U", "V", "W", "X", "Y", "Z",
           "_"}

is_alpha_numeric(c) == is_alpha(c) \/ is_digit(c)

Scanner_new(source) ==
    [source |-> source, start |-> 0, current |-> 0, line |-> 1, tokens |-> <<>>,
     status |-> "ScanSuccess", stderr |-> <<>>]

Scanner_end(s) == s.current >= Len(s.source)

\* reading source.as_bytes()[current] at the end of the source is a panic
Scanner_advance(s) ==
    IF s.current + 1 \in DOMAIN s.source
    THEN Ok([s EXCEPT !.current = @ + 1], s.source[s.current + 1])
    ELSE Err(s, Panic("index out of bounds"))

Scanner_match_then_advance(s, expected) ==
    IF Scanner_end(s) THEN Err(s, FALSE)
    ELSE IF s.source[s.current + 1] # expected THEN Err(s, FALSE)
    ELSE Ok([s EXCEPT !.current = @ + 1], TRUE)

Scanner_peek(s) == IF Scanner_end(s) THEN "NUL" ELSE s.source[s.current + 1]

\* the elements of a sequence
Range(f) == {f[i] : i \in DOMAIN f}

\* String::from(&source[..]): the characters as one string
RECURSIVE Text(_)
Text(chars) == IF chars = <<>> THEN "" ELSE Head(chars) \o Text(Tail(chars))

\* str::parse::<f64> on digits with at most one '.': the number is kept as an
\* integer when no digit but 0 follows the '.'
parse_f64(literal) ==
    LET dots == {i \in DOMAIN literal : literal[i] = "."}
        dot == IF dots = {} THEN Len(literal) + 1
               ELSE CHOOSE i \in dots : \A j \in dots : i <= j
        value[n \in 0..Len(literal)] ==
            IF n = 0 THEN 0 ELSE 10 * value[n - 1] + Numerals[literal[n]]
        fraction == SubSeq(literal, dot + 1, Len(literal))
    IN  IF \A i \in DOMAIN fraction : fraction[i] = "0" THEN value[dot - 1]
        ELSE [whole |-> value[dot - 1], fraction |-> Text(fraction)]

\* add_token as it would be if it took the lexeme of EOF from the source too
add_token_slices(s, ttype) ==
    [s EXCEPT !.tokens =
        Append(@, [Token_new(ttype, Text(SubSeq(s.source, s.start + 1, s.current)),
                             None) EXCEPT !.line = s.line])]

\* the line of a token is the line of the scanner
add_token(s, ttype) ==
    LET lexeme == IF ttype = "EOF" THEN ""
                  ELSE Text(SubSeq(s.source, s.start + 1, s.current))
    IN  [s EXCEPT !.tokens =
            Append(@, [Token_new(ttype, lexeme, None) EXCEPT !.line = s.line])]

\* called with STRING and NUMBER only
add_token_literal(s, ttype, literal) ==
    LET lexeme == Text(SubSeq(s.source, s.start + 1, s.current))
        value == IF ttype = "STRING" THEN StringLiteral(Text(literal))
                 ELSE NumberLiteral(parse_f64(literal))
    IN  [s EXCEPT !.tokens =
            Append(@, [Token_new(ttype, lexeme, value) EXCEPT !.line = s.line])]

\* while !end() and (peek() is one of chars) = member { advance() }: the loops
\* of number and identifier, whose test fails on '\0', and of a comment
RECURSIVE advance_while(_, _, _)
advance_while(s, chars, member) ==
    IF ~Scanner_end(s) /\ ((Scanner_peek(s) \in chars) = member)
    THEN advance_while(Scanner_advance(s).st, chars, member)
    ELSE s

RECURSIVE string_loop(_)
string_loop(s) ==
    IF Scanner_peek(s) # "\"" /\ ~Scanner_end(s)
    THEN string_loop(Scanner_advance(
             [s EXCEPT !.line = IF Scanner_peek(s) = "\n" THEN @ + 1 ELSE @]).st)
    ELSE s

string(s) ==
    LET t == string_loop(s)
        literal == SubSeq(t.source, t.start + 2, t.current)
    IN  IF Scanner_end(t) THEN Err(t, NonTerminatedString(t.line))
        ELSE Ok(add_token_literal(Scanner_advance(t).st, "STRING", literal), Unit)

number(s) ==
    LET whole == advance_while(s, DOMAIN Numerals, TRUE)
        t == IF Scanner_peek(whole) = "."
             THEN advance_while(Scanner_advance(whole).st, DOMAIN Numerals, TRUE)
             ELSE whole
    IN  add_token_literal(t, "NUMBER", SubSeq(t.source, t.start + 1, t.current))

identifier(s) ==
    LET t == advance_while(s, {c \in Range(s.source) : is_alpha_numeric(c)}, TRUE)
        text == Text(SubSeq(t.source, t.start + 1, t.current))
    IN  add_token(t, IF text \in DOMAIN KEYWORDS THEN KEYWORDS[text] ELSE "IDENTIFIER")

scan_token(s) ==
    LET a == Scanner_advance(s)
        c == a.val
        t == a.st
        eq == Scanner_match_then_advance(t, "=")
        slash == Scanner_match_then_advance(t, "/")
    IN  CASE c \in {"(", ")", "{", "}", ",", ".", "-", "+", "*", ";"} ->
                Ok(add_token(t, Symbols[c]), Unit)
          [] c \in {"!", "=", "<", ">"} ->
                Ok(add_token(eq.st, Symbols[IF eq.ok THEN c \o "=" ELSE c]), Unit)
          [] c = "/" /\ slash.ok -> Ok(advance_while(slash.st, {"\n"}, FALSE), Unit)
          [] c = "/" -> Ok(add_token(t, "SLASH"), Unit)
          [] c \in {" ", "\r", "\t"} -> Ok(t, Unit)
          [] c = "\"" -> string(t)
          [] is_digit(c) -> Ok(number(t), Unit)
          [] is_alpha(c) -> Ok(identifier(t), Unit)
          [] c = "\n" -> Ok([t EXCEPT !.line = @ + 1], Unit)
          [] OTHER -> Err(t, UnknownChar(t.line, c))

\* one iteration of the loop of scan_tokens as it would be if a token that is
\* scanned without an error set the status to ScanSuccess
scan_tokens_step_resets(s) ==
    LET r == scan_token([s EXCEPT !.start = s.current])
    IN  IF r.ok THEN [r.st EXCEPT !.status = "ScanSuccess"]
        ELSE [r.st EXCEPT !.stderr = Append(@, ScannerError_fmt(r.val)),
                          !.status = IF r.val.kind = "UnknownChar"
                                     THEN "UnknowCharErr"
                                     ELSE "NonTerminatedStringErr"]

\* one iteration of the loop of scan_tokens
scan_tokens_step(s) ==
    LET r == scan_token([s EXCEPT !.start = s.current])
    IN  IF r.ok THEN r.st
        ELSE [r.st EXCEPT !.stderr = Append(@, ScannerError_fmt(r.val)),
                          !.status = IF r.val.kind = "UnknownChar"
                                     THEN "UnknowCharErr"
                                     ELSE "NonTerminatedStringErr"]

RECURSIVE scan_tokens(_)
scan_tokens(s) ==
    IF ~Scanner_end(s) THEN scan_tokens(scan_tokens_step(s)) ELSE add_token(s, "EOF")

\* str::trim_end
RECURSIVE trim_end(_)
trim_end(source) ==
    IF source # <<>> /\ source[Len(source)] \in {" ", "\t", "\n", "\r"}
    THEN trim_end(SubSeq(source, 1, Len(source) - 1))
    ELSE source

(***************************************************************************)
(* The sources that are scanned: two of the pieces below, one after the     *)
(* other.                                                                  *)
(***************************************************************************)
Pieces ==
    << <<>>,
       <<"p", "r", "i", "n", "t", " ", "1", ";">>,
       <<"@">>,
       <<"1", "2", "3", ".">>,
       <<"1", ".", "f", "o", "o">>,
       <<"2", ".", "0", ";">>,
       <<"1", ".", "5">>,
       <<"\"", "a", "\n", "b", "\"", ";">>,
       <<"\"", "s">>,
       <<"/", "/", " ", "c", " ", "@", "\n">>,
       <<"!", "=", " ", "!", " ", "=", "=", " ", "=", " ", "<", "=", " ", "<", " ", ">", "=", " ", ">", " ", "/", " ">>,
       <<" ", "\t", "\r", "\n">>,
       <<"v", "a", "r", " ", "x", "_", "1", " ", "=", " ", "n", "i", "l", ";">>,
       <<"#", "p", "r", "i", "n", "t", " ", "2", ";">>,
       <<"(", ")", "{", "}", ",", ".", "-", "+", "*", ";">> >>

ScanPrograms == [family : {"pieces"}, a : DOMAIN Pieces, b : DOMAIN Pieces]

ScanSource(p) == Pieces[p.a] \o Pieces[p.b]

(***************************************************************************)
(* The programs.  A program is [family, a, b]: one of the families below   *)
(* and two small numbers that shape it (a nesting depth, a number of       *)
(* parameters or arguments, a variant).                                    *)
(***************************************************************************)
MaxNest == 2

MaxArity == 2

MaxClock == 1

RECURSIVE Rep(_, _)
Rep(words, n) == IF n = 0 THEN <<>> ELSE words \o Rep(words, n - 1)

\* p1 , p2 , ... , pn
RECURSIVE ParamList(_)
ParamList(n) ==
    IF n = 0 THEN <<>>
    ELSE IF n = 1 THEN <<"p1">>
    ELSE ParamList(n - 1) \o <<",", "p" \o NatToStr(n)>>

\* 1 , 2 , ... , n
RECURSIVE NumberList(_)
NumberList(n) ==
    IF n = 0 THEN <<>>
    ELSE IF n = 1 THEN <<"1">>
    ELSE NumberList(n - 1) \o <<",", NatToStr(n)>>

\* fun tk ( ) { print k ; return k ; }
Tracer(k) ==
    <<"fun", "t" \o NatToStr(k), "(", ")", "{", "print", NatToStr(k), ";",
      "return", NatToStr(k), ";", "}", "\n">>

\* the declarations of t0, t1, ..., tn
RECURSIVE Tracers(_)
Tracers(n) == IF n = 0 THEN Tracer(0) ELSE Tracers(n - 1) \o Tracer(n)

\* t1 ( ) , t2 ( ) , ... , tn ( )
RECURSIVE TracedList(_)
TracedList(n) ==
    IF n = 0 THEN <<>>
    ELSE IF n = 1 THEN <<"t1", "(", ")">>
    ELSE TracedList(n - 1) \o <<",", "t" \o NatToStr(n), "(", ")">>

\* a function that reads the free variable x, called from inside a nested blocks
\* that each declare an x of their own
ScopeProgram(a) ==
    <<"var", "x", "=", "\"global\"", ";", "\n",
      "fun", "show", "(", ")", "{", "print", "x", ";", "}", "\n">>
    \o Rep(<<"{", "var", "x", "=", "\"block\"", ";">>, a)
    \o <<"show", "(", ")", ";">>
    \o Rep(<<"}">>, a)
    \o <<"\n", "print", "x", ";">>

\* the counter program of the specification
CounterProgram ==
    <<"fun", "counter", "(", ")", "{", "\n",
      "var", "i", "=", "0", ";", "\n",
      "fun", "inc", "(", ")", "{", "i", "=", "i", "+", "1", ";",
                                  "return", "i", ";", "}", "\n",
      "return", "inc", ";", "\n",
      "}", "\n",
      "var", "c1", "=", "counter", "(", ")", ";", "\n",
      "var", "c2", "=", "counter", "(", ")", ";", "\n",
      "print", "c1", "(", ")", ";", "\n",
      "print", "c1", "(", ")", ";", "\n",
      "print", "c2", "(", ")", ";">>

\* a return statement outside every function body, inside a blocks;
\* b = 1: with a value, b = 2: as the branch of an if, b = 3: as the body of a while
TopReturnProgram(a, b) ==
    <<"print", "1", ";", "\n">>
    \o Rep(<<"{">>, a)
    \o (CASE b = 0 -> <<"return", ";">>
          [] b = 1 -> <<"return", "1", ";">>
          [] b = 2 -> <<"if", "(", "true", ")", "return", ";">>
          [] OTHER -> <<"while", "(", "true", ")", "return", "2", ";">>)
    \o Rep(<<"}">>, a)
    \o <<"\n", "print", "2", ";">>

\* function bodies that end in the ways a body can end
FnReturnProgram(a, b) ==
    CASE a = 0 ->
            <<"fun", "f", "(", "n", ")", "{", "\n",
              "while", "(", "true", ")", "{",
                  "if", "(", "n", ">", "2", ")", "{", "return", "n", ";", "}",
                  "n", "=", "n", "+", "1", ";", "}", "\n",
              "print", "\"after\"", ";", "}", "\n",
              "print", "f", "(", NatToStr(b), ")", ";", "print", "\"after\"", ";">>
      [] a = 1 ->
            <<"fun", "g", "(", ")", "{", "print", "\"body\"", ";", "}", "\n",
              "print", "g", "(", ")", ";", "print", "\"after\"", ";">>
      [] a = 2 ->
            <<"fun", "h", "(", ")", "{", "return", ";", "print", "\"after\"", ";", "}", "\n",
              "print", "h", "(", ")", ";", "print", "\"after\"", ";">>
      [] a = 3 ->
            <<"fun", "e", "(", ")", "{">> \o Rep(<<"{">>, b)
            \o <<"print", "undefined", ";">> \o Rep(<<"}">>, b)
            \o <<"print", "\"after\"", ";", "}", "\n",
                 "e", "(", ")", ";", "print", "\"after\"", ";">>
      [] a = 4 ->
            <<"fun", "inner", "(", ")", "{", "return", "1", ";",
                                             "print", "\"after\"", ";", "}", "\n",
              "fun", "outer", "(", ")", "{", "print", "inner", "(", ")", ";",
                                             "return", "2", ";", "}", "\n",
              "print", "outer", "(", ")", ";", "print", "\"after\"", ";">>
      [] OTHER ->
            <<"fun", "r", "(", ")", "{", "return", "1", "+", "nil", ";", "}", "\n",
              "print", "r", "(", ")", ";", "print", "\"after\"", ";">>

\* a + 1 nested blocks left normally (b = 0), by a runtime error (b = 1) or by
\* a return statement in a function body (b = 2)
BlocksProgram(a, b) ==
    CASE b = 0 ->
            <<"var", "v", "=", "1", ";", "\n">> \o Rep(<<"{">>, a + 1)
            \o <<"print", "v", ";">> \o Rep(<<"}">>, a + 1)
            \o <<"\n", "print", "\"after\"", ";">>
      [] b = 1 ->
            <<"var", "v", "=", "1", ";", "\n">> \o Rep(<<"{">>, a + 1)
            \o <<"print", "undefined", ";">> \o Rep(<<"}">>, a + 1)
            \o <<"\n", "print", "\"after\"", ";">>
      [] OTHER ->
            <<"fun", "f", "(", ")", "{">> \o Rep(<<"{">>, a + 1)
            \o <<"return", "1", ";">> \o Rep(<<"}">>, a + 1)
            \o <<"print", "\"body\"", ";", "}", "\n",
                 "{", "print", "f", "(", ")", ";", "}", "\n",
                 "print", "\"after\"", ";">>

\* programs with syntax errors
SyntaxProgram(a) ==
    CASE a = 0 -> <<"print", "1", ";", "\n", "var", "=", "2", ";", "\n",
                    "print", "3", ";">>
      [] a = 1 -> <<"{", "print", ";", "}", "\n", "print", "1", ";">>
      [] a = 2 -> <<"print", "1", "print", "2", ";", "\n", "print", "3", ";">>
      [] a = 3 -> <<"fun", "f", "(", "{", "}", "\n", "print", "1", ";">>
      [] a = 4 -> <<"var", "=", "1", ";", "\n", "print", "2", ";", "\n",
                    ")", ";", "\n", "print", "3", ";">>
      [] a = 5 -> <<"print", "1", ";", "\n", "{", "print", "2", ";">>
      [] a = 6 -> <<"var", "=", "1", ";", "\n", "2", ";", "\n",
                    ")", ";", "\n", "print", "3", ";">>
      [] OTHER -> <<"print", "1", "\n", "print", "2", ";", "\n",
                    ")", ";", "\n", "print", "3", ";">>

\* assignments whose left-hand side is not a variable reference
AssignTargetProgram(a) ==
    <<"var", "a", "=", "1", ";", "var", "b", "=", "2", ";", "\n">>
    \o (CASE a = 0 -> <<"a", "+", "b", "=", "3", ";">>
          [] a = 1 -> <<"(", "a", ")", "=", "2", ";">>
          [] OTHER -> <<"1", "=", "2", ";">>)
    \o <<"\n", "print", "a", ";">>

\* a function of a parameters called with b arguments
ArityProgram(a, b) ==
    <<"fun", "f", "(">> \o ParamList(a)
    \o <<")", "{", "print", "\"body\"", ";", "}", "\n",
         "f", "(">> \o NumberList(b) \o <<")", ";", "\n",
         "print", "\"after\"", ";">>

\* the native function called with b arguments
ClockProgram(b) ==
    <<"print", "clock", "(">> \o NumberList(b) \o <<")", ";", "\n",
      "print", "clock", ";">>

\* a call whose callee and b arguments each print when they are evaluated; the
\* callee yields a function of b parameters (a = 0), a number (a = 1) or a
\* function of b + 1 parameters (a = 2), or is an undefined name (a = 3)
CallOrderProgram(a, b) ==
    Tracers(b)
    \o <<"fun", "target", "(">> \o ParamList(IF a = 2 THEN b + 1 ELSE b)
    \o <<")", "{", "print", "\"body\"", ";", "}", "\n",
         "fun", "mk", "(", ")", "{", "print", "0", ";",
                                     "return", "target", ";", "}", "\n">>
    \o (CASE a = 1 -> <<"t0", "(", ")">>
          [] a = 3 -> <<"undefined">>
          [] OTHER -> <<"mk", "(", ")">>)
    \o <<"(">> \o TracedList(b) \o <<")", ";", "\n", "print", "\"after\"", ";">>

\* a name bound in no frame is read (b = 0) or assigned (b = 1), inside a blocks
UndefinedProgram(a, b) ==
    <<"var", "v", "=", "1", ";", "\n", "print", "v", ";", "\n">>
    \o Rep(<<"{", "var", "w", "=", "2", ";">>, a)
    \o (IF b = 0 THEN <<"print", "undefined", ";">>
        ELSE <<"undefined", "=", "3", ";">>)
    \o Rep(<<"}">>, a)
    \o <<"\n", "print", "\"after\"", ";">>

\* a blocks that each declare an x of their own over the globals x and y; in
\* the innermost frame x is declared again (b = 1), x is assigned (b = 2), y is
\* assigned (b = 3) or y is declared (b = 4); every frame then prints x and y
ShadowProgram(a, b) ==
    <<"var", "x", "=", "1", ";", "var", "y", "=", "5", ";", "\n">>
    \o Rep(<<"{", "var", "x", "=", "2", ";">>, a)
    \o (CASE b = 0 -> <<>>
          [] b = 1 -> <<"var", "x", "=", "3", ";">>
          [] b = 2 -> <<"x", "=", "4", ";">>
          [] b = 3 -> <<"y", "=", "6", ";">>
          [] OTHER -> <<"var", "y", "=", "7", ";">>)
    \o Rep(<<"print", "x", ";", "print", "y", ";", "}">>, a)
    \o <<"\n", "print", "x", ";", "print", "y", ";">>

\* a loop whose second iteration fails inside a blocks, with statements after
\* the failing one in the iteration, the loop and the program; at top level
\* with an undefined name (b = 0), in a function body with a type error (b = 1)
AbortProgram(a, b) ==
    (IF b = 0 THEN <<>> ELSE <<"fun", "f", "(", ")", "{", "\n">>)
    \o <<"var", "i", "=", "0", ";", "\n",
         "while", "(", "i", "<", "3", ")", "{", "print", "i", ";", "\n">>
    \o Rep(<<"{">>, a)
    \o <<"if", "(", "i", "==", "1", ")">>
    \o (IF b = 0 THEN <<"print", "undefined", ";">> ELSE <<"print", "1", "-", "nil", ";">>)
    \o Rep(<<"}">>, a)
    \o <<"\n", "print", "\"body\"", ";", "i", "=", "i", "+", "1", ";", "}", "\n">>
    \o (IF b = 0 THEN <<>>
        ELSE <<"print", "\"body\"", ";", "}", "\n", "f", "(", ")", ";", "\n">>)
    \o <<"print", "\"after\"", ";">>

\* the operand a: nil, false, true, 0, "", the native function, a user
\* function, 1, "s"
Operand(a) ==
    CASE a = 0 -> "nil" [] a = 1 -> "false" [] a = 2 -> "true" [] a = 3 -> "0"
      [] a = 4 -> "\"\"" [] a = 5 -> "clock" [] a = 6 -> "f" [] a = 7 -> "1"
      [] OTHER -> "\"s\""

\* the value of Operand(a) decides: an if (b = 0), a while (b = 1), a `!`
\* (b = 2), an and (b = 3), an or (b = 4)
TruthProgram(a, b) ==
    <<"fun", "f", "(", ")", "{", "}", "\n", "var", "v", "=", Operand(a), ";", "\n">>
    \o (CASE b = 0 -> <<"if", "(", "v", ")", "print", "\"body\"", ";",
                        "else", "print", "\"s\"", ";">>
          [] b = 1 -> <<"while", "(", "v", ")", "{", "print", "\"body\"", ";",
                        "v", "=", "nil", ";", "}">>
          [] b = 2 -> <<"print", "!", "v", ";">>
          [] b = 3 -> <<"print", "v", "and", "1", ";">>
          [] OTHER -> <<"print", "v", "or", "1", ";">>)
    \o <<"\n", "print", "\"after\"", ";">>

\* Operand(a) == Operand(b) and Operand(a) != Operand(b), printed
EqualProgram(a, b) ==
    <<"fun", "f", "(", ")", "{", "}", "\n",
      "print", Operand(a), "==", Operand(b), ";", "\n",
      "print", Operand(a), "!=", Operand(b), ";">>

\* the operator a
Operator(a) ==
    CASE a = 0 -> "-" [] a = 1 -> "*" [] a = 2 -> "/" [] a = 3 -> ">"
      [] a = 4 -> ">=" [] a = 5 -> "<" [] a = 6 -> "<=" [] OTHER -> "+"

\* the operator a, on a line of its own, between 6 and 3 (b = 0), 6 and "s"
\* (b = 1), nil and 3 (b = 2), clock and true (b = 3), 3 and 3 (b = 4),
\* "s" and "after" (b = 5), "s" and 3 (b = 6)
ArithProgram(a, b) ==
    <<"print",
      CASE b \in {0, 1} -> "6" [] b = 2 -> "nil" [] b = 3 -> "clock" [] b = 4 -> "3"
        [] OTHER -> "\"s\"",
      "\n", Operator(a), "\n",
      CASE b \in {0, 2, 4, 6} -> "3" [] b = 1 -> "\"s\"" [] b = 3 -> "true"
        [] OTHER -> "\"after\"",
      ";", "\n", "print", "\"after\"", ";">>

\* Operand(a) + Operand(b), printed
PlusProgram(a, b) ==
    <<"fun", "f", "(", ")", "{", "}", "\n",
      "print", Operand(a), "\n", "+", Operand(b), ";", "\n",
      "print", "\"after\"", ";">>

\* Operand(a) and r() (b = 0), Operand(a) or r() (b = 1), printed; r prints
\* and returns nil
LogicalProgram(a, b) ==
    <<"fun", "f", "(", ")", "{", "}", "\n",
      "fun", "r", "(", ")", "{", "print", "\"body\"", ";", "return", "nil", ";", "}", "\n",
      "print", Operand(a), IF b = 0 THEN "and" ELSE "or", "r", "(", ")", ";", "\n",
      "print", "\"after\"", ";">>

\* a for loop in a function body whose body prints i and returns once i > 1;
\* the condition i < 2 is present when a is 1 or 3, the increment when a is 2
\* or 3 (the body increments i itself without one), and the initializer is
\* absent (b = 0), the declaration of i (b = 1) or an expression (b = 2); i is
\* declared before the loop when the initializer does not declare it
ForProgram(a, b) ==
    <<"fun", "f", "(", ")", "{", "\n",
      "var", IF b = 1 THEN "n" ELSE "i", "=", "0", ";", "\n", "for", "(">>
    \o (CASE b = 0 -> <<";">>
          [] b = 1 -> <<"var", "i", "=", "0", ";">>
          [] OTHER -> <<"i", "=", "0", ";">>)
    \o (IF a \in {1, 3} THEN <<"i", "<", "2">> ELSE <<>>)
    \o <<";">>
    \o (IF a \in {2, 3} THEN <<"i", "=", "i", "+", "1">> ELSE <<>>)
    \o <<")", "{", "print", "i", ";", "if", "(", "i", ">", "1", ")", "return", ";">>
    \o (IF a \in {2, 3} THEN <<>> ELSE <<"i", "=", "i", "+", "1", ";">>)
    \o <<"}", "\n", "print", "\"after\"", ";", "}", "\n", "f", "(", ")", ";">>

\* a function declared with MaxParams + b - 1 parameters (a = 0), a call with
\* as many arguments (a = 1), and a statement after it
LimitProgram(a, b) ==
    LET list(w) == [i \in 1..2 * (MaxParams + b - 1) - 1 |->
                       IF i % 2 = 1 THEN w ELSE ","]
    IN  (IF a = 0 THEN <<"fun", "f", "(">> \o list("p") \o <<")", "{", "}">>
         ELSE <<"undefined", "(">> \o list("1") \o <<")", ";">>)
        \o <<"\n", "print", "\"after\"", ";">>

\* the binary operators of the precedence programs
Infix(a) ==
    CASE a = 0 -> "-" [] a = 1 -> "*" [] a = 2 -> "/" [] a = 3 -> "+"
      [] a = 4 -> "<" [] OTHER -> "=="

\* 8 Infix(a) 4 Infix(b) 2, printed; with b = 6, 1 + 2 * 3 (a = 0) and
\* 1 - 2 - 3 (a = 1)
PrecedenceProgram(a, b) ==
    CASE b = 6 /\ a = 0 -> <<"print", "1", "+", "2", "*", "3", ";">>
      [] b = 6 -> <<"print", "1", "-", "2", "-", "3", ";">>
      [] OTHER -> <<"print", "8", Infix(a), "4", Infix(b), "2", ";">>

\* a binary operator (Operator(a), == for a = 8, != for a = 9) between a left
\* operand that prints "block" and yields 6 (b = 0) or nil (b = 1), that is
\* an undefined name (b = 2), that is nil (b = 3) or that is nil - 1 (b = 4),
\* and a right operand that assigns 5 to the global x: a call that prints
\* "body" and yields 3, or the assignment itself (b = 3)
OperandOrderProgram(a, b) ==
    <<"var", "x", "=", "1", ";", "\n",
      "fun", "l", "(", ")", "{", "print", "\"block\"", ";",
          "return", IF b = 1 THEN "nil" ELSE "6", ";", "}", "\n",
      "fun", "r", "(", ")", "{", "print", "\"body\"", ";",
          "x", "=", "5", ";", "return", "3", ";", "}", "\n", "print">>
    \o (CASE b \in {0, 1} -> <<"l", "(", ")">>
          [] b = 2 -> <<"undefined">>
          [] b = 3 -> <<"nil">>
          [] OTHER -> <<"(", "nil", "-", "1", ")">>)
    \o <<CASE a = 8 -> "==" [] a = 9 -> "!=" [] OTHER -> Operator(a)>>
    \o (IF b = 3 THEN <<"(", "x", "=", "5", ")">> ELSE <<"r", "(", ")">>)
    \o <<";", "\n", "print", "\"after\"", ";">>

\* inside a blocks, after var x = 1; var y = 0; and a function bump that
\* assigns 5 to y and yields 1: var x = x + 1; print x; (b = 0),
\* var w = undefined; (b = 1), var x = nil - 1; (b = 2), x = nil - 1; (b = 3),
\* var w; print w; (b = 4), x = bump() - nil; (b = 5), var w = bump() - nil;
\* (b = 6); after the blocks, x is printed
UpdateProgram(a, b) ==
    <<"var", "x", "=", "1", ";", "var", "y", "=", "0", ";", "\n",
      "fun", "bump", "(", ")", "{", "y", "=", "5", ";", "return", "1", ";", "}",
      "\n">>
    \o Rep(<<"{">>, a)
    \o (CASE b = 0 -> <<"var", "x", "=", "x", "+", "1", ";", "print", "x", ";">>
          [] b = 1 -> <<"var", "w", "=", "undefined", ";">>
          [] b = 2 -> <<"var", "x", "=", "nil", "-", "1", ";">>
          [] b = 3 -> <<"x", "=", "nil", "-", "1", ";">>
          [] b = 4 -> <<"var", "w", ";", "print", "w", ";">>
          [] b = 5 -> <<"x", "=", "bump", "(", ")", "-", "nil", ";">>
          [] OTHER -> <<"var", "w", "=", "bump", "(", ")", "-", "nil", ";">>)
    \o Rep(<<"}">>, a)
    \o <<"\n", "print", "x", ";">>

Programs ==
    [family : {"scope"}, a : 0..MaxNest, b : {0}]
    \cup [family : {"counter"}, a : {0}, b : {0}]
    \cup [family : {"top_return"}, a : 0..MaxNest, b : 0..3]
    \cup [family : {"fn_return"}, a : {0}, b : 0..MaxArity + 2]
    \cup [family : {"fn_return"}, a : {1, 2, 4, 5}, b : {0}]
    \cup [family : {"fn_return"}, a : {3}, b : 0..MaxNest]
    \cup [family : {"blocks"}, a : 0..MaxNest, b : 0..2]
    \cup [family : {"syntax"}, a : 0..7, b : {0}]
    \cup [family : {"assign_target"}, a : 0..2, b : {0}]
    \cup [family : {"arity"}, a : 0..MaxArity, b : 0..MaxArity]
    \cup [family : {"clock"}, a : {0}, b : 0..MaxArity]
    \cup [family : {"call_order"}, a : 0..3, b : 0..MaxArity]
    \cup [family : {"undefined"}, a : 0..MaxNest, b : 0..1]
    \cup [family : {"shadow"}, a : 0..MaxNest, b : 0..4]
    \cup [family : {"abort"}, a : 0..MaxNest - 1, b : 0..1]
    \cup [family : {"truth"}, a : 0..6, b : 0..4]
    \cup [family : {"equal"}, a : 0..8, b : 0..8]
    \cup [family : {"arith"}, a : 0..7, b : 0..6]
    \cup [family : {"plus"}, a : 0..8, b : 0..8]
    \cup [family : {"logical"}, a : 0..8, b : 0..1]
    \cup [family : {"for"}, a : 0..3, b : 0..2]
    \cup [family : {"limit"}, a : 0..1, b : 0..2]
    \cup [family : {"precedence"}, a : 0..5, b : 0..5]
    \cup [family : {"precedence"}, a : 0..1, b : {6}]
    \cup [family : {"empty"}, a : {0}, b : {0}]
    \cup [family : {"operand_order"}, a : 0..9, b : 0..4]
    \cup [family : {"update"}, a : 0..MaxNest, b : 0..6]

Source(p) ==
    CASE p.family = "scope" -> ScopeProgram(p.a)
      [] p.family = "counter" -> CounterProgram
      [] p.family = "top_return" -> TopReturnProgram(p.a, p.b)
      [] p.family = "fn_return" -> FnReturnProgram(p.a, p.b)
      [] p.family = "blocks" -> BlocksProgram(p.a, p.b)
      [] p.family = "syntax" -> SyntaxProgram(p.a)
      [] p.family = "assign_target" -> AssignTargetProgram(p.a)
      [] p.family = "arity" -> ArityProgram(p.a, p.b)
      [] p.family = "clock" -> ClockProgram(p.b)
      [] p.family = "call_order" -> CallOrderProgram(p.a, p.b)
      [] p.family = "shadow" -> ShadowProgram(p.a, p.b)
      [] p.family = "abort" -> AbortProgram(p.a, p.b)
      [] p.family = "truth" -> TruthProgram(p.a, p.b)
      [] p.family = "equal" -> EqualProgram(p.a, p.b)
      [] p.family = "arith" -> ArithProgram(p.a, p.b)
      [] p.family = "plus" -> PlusProgram(p.a, p.b)
      [] p.family = "logical" -> LogicalProgram(p.a, p.b)
      [] p.family = "for" -> ForProgram(p.a, p.b)
      [] p.family = "limit" -> LimitProgram(p.a, p.b)
      [] p.family = "precedence" -> PrecedenceProgram(p.a, p.b)
      [] p.family = "empty" -> <<>>
      [] p.family = "operand_order" -> OperandOrderProgram(p.a, p.b)
      [] p.family = "update" -> UpdateProgram(p.a, p.b)
      [] OTHER -> UndefinedProgram(p.a, p.b)

(***************************************************************************)
(* main.rs, run mode, after the scanner has succeeded.                     *)
(***************************************************************************)
Pending == [returned |-> FALSE, ok |-> FALSE, val |-> Unit]

Returned(ok, val) == [returned |-> TRUE, ok |-> ok, val |-> val]

Init ==
    /\ prog \in Programs
    /\ phase = "parse"
    /\ parser = Parser_new(Tokens(Source(prog)))
    /\ stmts = <<>>
    /\ \E now \in 0..MaxClock :
          interp = [envs |-> <<>>, environment |-> 0, stdout |-> <<>>,
                    now |-> now, log |-> <<>>]
    /\ next_stmt = 0
    /\ result = Pending
    /\ main_err = <<>>
    /\ exit_code = -1
    /\ scanner = Scanner_new(<<>>)

\* one iteration of the loop of Parser::parse
Parse ==
    /\ phase = "parse"
    /\ ~end(parser)
    /\ LET d == rule("declaration", parser)
       IN  /\ parser' = d.st
           /\ stmts' = IF d.ok THEN Append(stmts, d.val) ELSE stmts
    /\ UNCHANGED <<prog, phase, interp, next_stmt, result, main_err, exit_code, scanner>>

\* parse has returned with status Success: main creates the interpreter
ParseSuccess ==
    /\ phase = "parse"
    /\ end(parser)
    /\ parser.status = "Success"
    /\ interp' = [Interpreter_new(interp.now) EXCEPT !.stdout = parser.stdout]
    /\ phase' = "interpret"
    /\ UNCHANGED <<prog, parser, stmts, next_stmt, result, main_err, exit_code, scanner>>

\* parse has returned with status Panic: main exits
ParsePanic ==
    /\ phase = "parse"
    /\ end(parser)
    /\ parser.status = "Panic"
    /\ phase' = "exit"
    /\ exit_code' = 65
    /\ UNCHANGED <<prog, parser, stmts, interp, next_stmt, result, main_err, scanner>>

\* one iteration of the loop of Interpreter::interprete; `?` returns the Err
Execute ==
    /\ phase = "interpret"
    /\ next_stmt < Len(stmts)
    /\ LET r == execute(interp, stmts[next_stmt + 1])
       IN  /\ interp' = r.st
           /\ IF r.ok
              THEN next_stmt' = next_stmt + 1 /\ UNCHANGED <<phase, result>>
              ELSE /\ phase' = "returned"
                   /\ result' = Returned(FALSE, r.val)
                   /\ UNCHANGED next_stmt
    /\ UNCHANGED <<prog, parser, stmts, main_err, exit_code, scanner>>

\* the loop of Interpreter::interprete is over: Ok(())
InterpreteOk ==
    /\ phase = "interpret"
    /\ next_stmt = Len(stmts)
    /\ phase' = "returned"
    /\ result' = Returned(TRUE, Unit)
    /\ UNCHANGED <<prog, parser, stmts, interp, next_stmt, main_err, exit_code, scanner>>

\* main's match on what interprete returned.  A panic ends the process with
\* status 101, whether it was raised in the interpreter or by eprintln!("{e}").
Exit ==
    /\ phase = "returned"
    /\ phase' = "exit"
    /\ LET fmt == RuntimeException_fmt(result.val)
       IN  IF result.ok THEN exit_code' = 0 /\ UNCHANGED main_err
           ELSE IF result.val.kind = "Panic" THEN exit_code' = 101 /\ UNCHANGED main_err
           ELSE IF fmt.ok THEN exit_code' = 70 /\ main_err' = Append(main_err, fmt.val)
           ELSE exit_code' = 101 /\ UNCHANGED main_err
    /\ UNCHANGED <<prog, parser, stmts, interp, next_stmt, result, scanner>>

Next == Parse \/ ParseSuccess \/ ParsePanic \/ Execute \/ InterpreteOk \/ Exit

Spec == Init /\ [][Next]_vars

(***************************************************************************)
(* The run from the source: main scans the source, one token (or comment,  *)
(* blank or error) per step, and goes on as above when the scanner has     *)
(* ended with ScanSuccess.                                                 *)
(***************************************************************************)
ScanInit ==
    /\ prog \in ScanPrograms
    /\ phase = "scan"
    /\ scanner = Scanner_new(trim_end(ScanSource(prog)))
    /\ parser = Parser_new(<<>>)
    /\ stmts = <<>>
    /\ \E now \in 0..MaxClock :
          interp = [envs |-> <<>>, environment |-> 0, stdout |-> <<>>,
                    now |-> now, log |-> <<>>]
    /\ next_stmt = 0
    /\ result = Pending
    /\ main_err = <<>>
    /\ exit_code = -1

\* one iteration of the loop of scan_tokens
ScanToken ==
    /\ phase = "scan"
    /\ ~Scanner_end(scanner)
    /\ scanner' = scan_tokens_step(scanner)
    /\ UNCHANGED <<prog, phase, parser, stmts, interp, next_stmt, result, main_err,
                   exit_code>>

\* the loop of scan_tokens is over: the EOF token, and main's match on the status
ScanDone ==
    /\ phase = "scan"
    /\ Scanner_end(scanner)
    /\ scanner' = add_token(scanner, "EOF")
    /\ IF scanner.status = "ScanSuccess"
       THEN /\ phase' = "parse"
            /\ parser' = Parser_new(scanner'.tokens)
            /\ UNCHANGED exit_code
       ELSE /\ phase' = "exit"
            /\ exit_code' = 65
            /\ UNCHANGED parser
    /\ UNCHANGED <<prog, stmts, interp, next_stmt, result, main_err>>

ScanNext == ScanToken \/ ScanDone \/ Next

ScanSpec == ScanInit /\ [][ScanNext]_vars

(***************************************************************************)
(* Properties.  Calls and blocks are read off interp.log; what a program   *)
(* printed is interp.stdout, what main printed is main_err.                *)
(***************************************************************************)
\* the line that print writes for the number n
Shown(n) == CallableRet_fmt(Number(n))

\* the lines that printing 0, 1, ..., n - 1 in this order writes
Traced(n) == [k \in 1..n |-> Shown(k - 1)]

\* the frames of the chain that starts at frame e
RECURSIVE Chain(_, _)
Chain(envs, e) == IF e = 0 THEN {} ELSE {e} \cup Chain(envs, envs[e].enclosing)

\* C1: the frame of every call of a user function has as its parent the
\* environment that was active when the function was declared, whatever blocks
\* the caller has entered since: the function show of the scope programs, which
\* reads the free variable x, prints the global x from inside every block that
\* declares an x of its own.
C1_CallFrameParentIsClosure ==
    /\ \A i \in DOMAIN interp.log :
          interp.log[i].ev = "call" => interp.log[i].parent = interp.log[i].closure
    /\ (prog.family = "scope" /\ phase = "exit") =>
          interp.stdout = <<"global", "global">>

\* C2: the counter program ends without a runtime error and has printed 1, 2
\* (the two calls of c1) and 1 (the call of c2).
C2_IndependentCounters ==
    (prog.family = "counter" /\ phase = "exit") =>
        (exit_code = 0 /\ interp.stdout = <<Shown(1), Shown(2), Shown(1)>>)

\* C3: what Interpreter::interprete returns to main is never a FunctionReturn,
\* also when a return statement stands outside every function body.
C3_ReturnNeverLeaks == result.returned => result.val.kind # "FunctionReturn"

\* C4: a call never ends in FunctionReturn.  A body that ends in FunctionReturn
\* makes the call yield the carried value (nil when there is none), a body that
\* completes makes it yield nil, and any other outcome of the body is the
\* outcome of the call, unchanged.  The statements after an executed return are
\* skipped: the fn_return programs print what this predicts, and nothing else.
C4_ReturnStopsAtCall ==
    /\ \A i \in DOMAIN interp.log :
          LET c == interp.log[i]
          IN  c.ev = "call" =>
                /\ c.outcome # "FunctionReturn"
                /\ c.body_outcome = "FunctionReturn" =>
                      /\ c.outcome = "Ok"
                      /\ c.value = IF c.body_value.value = None THEN Nil
                                   ELSE c.body_value.value
                /\ c.body_outcome = "Ok" => (c.outcome = "Ok" /\ c.value = Nil)
                /\ c.body_outcome \notin {"Ok", "FunctionReturn"} =>
                      (c.outcome = c.body_outcome /\ c.value = c.body_value)
    /\ (prog.family = "fn_return" /\ phase = "exit") =>
          CASE prog.a = 0 ->
                  /\ exit_code = 0
                  /\ interp.stdout =
                        <<Shown(IF prog.b > 3 THEN prog.b ELSE 3), "after">>
            [] prog.a = 1 -> exit_code = 0 /\ interp.stdout = <<"body", "nil", "after">>
            [] prog.a = 2 -> exit_code = 0 /\ interp.stdout = <<"nil", "after">>
            [] prog.a = 3 ->
                  /\ exit_code = 70
                  /\ result.val.kind = "UndefinedVar"
                  /\ interp.stdout = <<>>
            [] prog.a = 4 ->
                  exit_code = 0 /\ interp.stdout = <<Shown(1), Shown(2), "after">>
            [] OTHER ->
                  /\ exit_code = 70
                  /\ result.val.kind = "InvalidOperand"
                  /\ interp.stdout = <<>>

\* a call whose body executed a return with a value, made from inside another
\* function body, has yielded that value
C4_Witness ==
    /\ prog.family = "fn_return" /\ prog.a = 4 /\ phase = "exit"
    /\ \E i \in DOMAIN interp.log :
          /\ interp.log[i].ev = "call"
          /\ interp.log[i].body_outcome = "FunctionReturn"
          /\ interp.log[i].before # 1
          /\ interp.log[i].value = Number(1)

\* C5: every block and every call that has finished normally, by a runtime
\* error or by a return signal has left the active environment the frame it
\* was before; between two top-level statements that is the global frame.
C5_EnvironmentRestored ==
    /\ \A i \in DOMAIN interp.log :
          interp.log[i].outcome # "Panic" =>
              interp.log[i].after = interp.log[i].before
    /\ (/\ phase \in {"interpret", "returned", "exit"}
        /\ interp.envs # <<>>
        /\ result.val.kind # "Panic") => interp.environment = 1

\* a block nested in another block was left by a runtime error
C5_Witness ==
    /\ prog.family = "blocks" /\ prog.b = 1 /\ phase = "exit"
    /\ \E i \in DOMAIN interp.log :
          /\ interp.log[i].ev = "block"
          /\ interp.log[i].outcome = "UndefinedVar"
          /\ interp.log[i].before # 1
          /\ interp.log[i].after = interp.log[i].before

\* C6: a declaration that fails sets the parser status to Panic; no later step
\* changes the status Panic; and once parsing is over with status Panic main
\* has exited with status 65 without creating the interpreter, so that no
\* statement has been executed and nothing has been printed by one.
C6_PanicIsNeverExecuted ==
    /\ [][(phase = "parse" /\ ~end(parser) /\ ~rule("declaration", parser).ok)
              => parser'.status = "Panic"]_vars
    /\ [][parser.status = "Panic" => parser'.status = "Panic"]_vars
    /\ []((parser.status = "Panic" /\ phase # "parse") =>
              /\ phase = "exit"
              /\ exit_code = 65
              /\ interp.envs = <<>>
              /\ interp.stdout = <<>>
              /\ next_stmt = 0
              /\ ~result.returned)

\* a program with a failed declaration between two that parsed has exited
C6_Witness ==
    /\ phase = "exit"
    /\ exit_code = 65
    /\ parser.status = "Panic"
    /\ Len(stmts) >= 2

\* C7: once the parser has written a diagnostic its status is Panic, and the
\* program is not executed: main exits with status 65.
C7_DiagnosticMarksFailure ==
    (parser.stdout # <<>> \/ parser.stderr # <<>>) =>
        /\ parser.status = "Panic"
        /\ phase \in {"parse", "exit"}
        /\ phase = "exit" => exit_code = 65

\* C8: every call of a user function was made with as many arguments as the
\* function has parameters.  A call of f (a parameters) with b # a arguments
\* ends the run with UnmatchedArity(a, b), reported as "Expected a arguments
\* but got b.", before any frame is created, any call is made or any statement
\* of the body is executed; so does a call of clock with arguments.
C8_ArityCheckedBeforeCall ==
    /\ \A i \in DOMAIN interp.log :
          interp.log[i].ev = "call" => interp.log[i].nargs = interp.log[i].arity
    /\ (prog.family = "arity" /\ phase = "exit") =>
          IF prog.a = prog.b
          THEN exit_code = 0 /\ interp.stdout = <<"body", "after">>
          ELSE /\ exit_code = 70
               /\ result.val = UnmatchedArity(prog.a, prog.b)
               /\ main_err = <<"Expected " \o NatToStr(prog.a)
                               \o " arguments but got " \o NatToStr(prog.b) \o ".">>
               /\ interp.stdout = <<>>
               /\ interp.log = <<>>
               /\ Len(interp.envs) = 1
               /\ DOMAIN interp.envs[1].map = {"clock", "f"}
    /\ (prog.family = "clock" /\ prog.b > 0 /\ phase = "exit") =>
          (exit_code = 70 /\ result.val = UnmatchedArity(0, prog.b))

\* a function was called with fewer arguments than it has parameters
C8_Witness ==
    /\ prog.family = "arity" /\ prog.a > prog.b /\ prog.b >= 1
    /\ phase = "exit"
    /\ result.val.kind = "UnmatchedArity"

\* C9: in a call the callee is evaluated first, then the arguments from left
\* to right, then the callee is required to be callable and then the count to
\* be the arity: the call_order programs, whose callee and arguments print
\* 0, 1, ..., b when they are evaluated, have printed all of these in this
\* order before the call is made (a = 0), refused as not callable whatever
\* the count (a = 1) or refused for its count (a = 2); a callee that fails
\* (a = 3) stops the call before any argument.
C9_CallEvaluationOrder ==
    (prog.family = "call_order" /\ phase = "exit") =>
        CASE prog.a = 0 ->
                /\ exit_code = 0
                /\ interp.stdout = Traced(prog.b + 1) \o <<"body", "after">>
          [] prog.a = 1 ->
                /\ exit_code = 70
                /\ result.val.kind = "InvalidCallable"
                /\ interp.stdout = Traced(prog.b + 1)
          [] prog.a = 2 ->
                /\ exit_code = 70
                /\ result.val = UnmatchedArity(prog.b + 1, prog.b)
                /\ interp.stdout = Traced(prog.b + 1)
          [] OTHER ->
                /\ exit_code = 70
                /\ result.val.kind = "UndefinedVar"
                /\ interp.stdout = <<>>

\* a number was called with two or more arguments, all of them evaluated
C9_Witness ==
    /\ prog.family = "call_order" /\ prog.a = 1 /\ prog.b >= 2
    /\ phase = "exit"
    /\ result.val.kind = "InvalidCallable"
    /\ Len(interp.stdout) = prog.b + 1

\* C10: in every state the interpreter reaches, get and assign from any frame,
\* on a name that no frame of its chain binds, fail with UndefinedVar for that
\* name and leave all frames as they are.  The undefined programs parse with
\* status Success, print what the statements before the reference print, end
\* with the undefined-variable error, and no frame binds the name afterwards.
C10_UndefinedVariable ==
    /\ \A e \in DOMAIN interp.envs : \A n \in {"undefined", "v", "w", "clock"} :
          LET name == Token_new("IDENTIFIER", n, None)
              g == get(interp.envs, e, name)
              s == assign(interp.envs, e, name, Number(3))
          IN  (\A f \in Chain(interp.envs, e) : n \notin DOMAIN interp.envs[f].map) =>
                 /\ ~g.ok /\ g.val = UndefinedVar(name) /\ g.st = interp.envs
                 /\ ~s.ok /\ s.val = UndefinedVar(name) /\ s.st = interp.envs
    /\ prog.family = "undefined" =>
          /\ parser.status = "Success"
          /\ parser.stdout = <<>> /\ parser.stderr = <<>>
          /\ phase = "exit" =>
                /\ exit_code = 70
                /\ result.val.kind = "UndefinedVar"
                /\ result.val.token.lexeme = "undefined"
                /\ main_err = <<"Undefined variable 'undefined'.">>
                /\ interp.stdout = <<Shown(1)>>
                /\ \A e \in DOMAIN interp.envs :
                      "undefined" \notin DOMAIN interp.envs[e].map

\* an assignment to an unbound name inside a block has ended the run
C10_Witness ==
    /\ prog.family = "undefined" /\ prog.b = 1 /\ prog.a >= 1
    /\ phase = "exit"
    /\ exit_code = 70
    /\ Len(interp.envs) > 1

\* what the shadow program (a, b) prints: x and y as each frame sees them, from
\* the innermost frame (k = a) to the global frame (k = 0)
ShadowOutput(a, b) ==
    LET x(k) == CASE k = a /\ b = 1 -> 3
                  [] k = a /\ b = 2 -> 4
                  [] k = 0 -> 1
                  [] OTHER -> 2
        y(k) == CASE b = 3 -> 6
                  [] b = 4 /\ k = a -> 7
                  [] OTHER -> 5
    IN  [i \in 1..2 * (a + 1) |->
            IF i % 2 = 1 THEN Shown(x(a - ((i - 1) \div 2)))
            ELSE Shown(y(a - ((i - 1) \div 2)))]

\* C11: a var statement executed with any frame e of a reached interpreter as
\* the current one binds the name to the value (nil without an initializer) in
\* frame e, whether or not e or a frame around it already binds the name, and
\* changes nothing else: no other binding of e, no other frame.  The shadow
\* programs, which declare x in nested blocks, print in every frame the x
\* declared there, and the global x is 1 after the blocks.
C11_DefineWritesCurrentFrame ==
    /\ \A e \in DOMAIN interp.envs : \A n \in {"x", "y", "z"} :
       \A init \in {None, Literal_new(NumberLiteral(9))} :
          LET r == visit_var_stmt([interp EXCEPT !.environment = e],
                                  VarStmt(Token_new("IDENTIFIER", n, None), init))
          IN  /\ r.ok
              /\ r.st.environment = e
              /\ DOMAIN r.st.envs = DOMAIN interp.envs
              /\ \A f \in DOMAIN interp.envs \ {e} : r.st.envs[f] = interp.envs[f]
              /\ r.st.envs[e].enclosing = interp.envs[e].enclosing
              /\ DOMAIN r.st.envs[e].map = DOMAIN interp.envs[e].map \cup {n}
              /\ r.st.envs[e].map[n] = IF init = None THEN Nil ELSE Number(9)
              /\ \A m \in DOMAIN interp.envs[e].map \ {n} :
                    r.st.envs[e].map[m] = interp.envs[e].map[m]
    /\ (prog.family = "shadow" /\ prog.b \in {0, 1, 4} /\ phase = "exit") =>
          (exit_code = 0 /\ interp.stdout = ShadowOutput(prog.a, prog.b))

\* a block has declared x twice over a global x, and the run is over: its
\* frame and the global frame hold different values of x
C11_Witness ==
    /\ prog.family = "shadow" /\ prog.a >= 1 /\ prog.b = 1
    /\ phase = "exit"
    /\ \E e \in DOMAIN interp.envs :
          /\ interp.envs[e].enclosing # 0
          /\ "x" \in DOMAIN interp.envs[e].map
          /\ interp.envs[e].map["x"] = Number(3)
          /\ interp.envs[1].map["x"] = Number(1)

\* the frames of the chain of e that bind n
Holders(envs, e, n) == {f \in Chain(envs, e) : n \in DOMAIN envs[f].map}

\* C12: in every state the interpreter reaches, from any frame e and for any
\* name n that some frame of the chain of e binds, get yields the value that
\* the nearest such frame holds and changes nothing, and assign yields the
\* frames with the value replaced in that nearest frame and nowhere else.  The
\* shadow programs that assign x or y in the innermost block print the new
\* value in the frames that see the assigned binding and the old values in
\* the others.
C12_NearestFrameResolves ==
    /\ \A e \in DOMAIN interp.envs : \A n \in {"x", "y", "clock"} :
          LET name == Token_new("IDENTIFIER", n, None)
              holders == Holders(interp.envs, e, n)
              nearest == CHOOSE f \in holders : holders \subseteq Chain(interp.envs, f)
              g == get(interp.envs, e, name)
              s == assign(interp.envs, e, name, Number(8))
          IN  holders # {} =>
                 /\ g.ok /\ g.val = interp.envs[nearest].map[n] /\ g.st = interp.envs
                 /\ s.ok
                 /\ DOMAIN s.st = DOMAIN interp.envs
                 /\ \A f \in DOMAIN interp.envs \ {nearest} : s.st[f] = interp.envs[f]
                 /\ s.st[nearest].enclosing = interp.envs[nearest].enclosing
                 /\ DOMAIN s.st[nearest].map = DOMAIN interp.envs[nearest].map
                 /\ \A m \in DOMAIN interp.envs[nearest].map :
                       s.st[nearest].map[m] =
                           IF m = n THEN Number(8) ELSE interp.envs[nearest].map[m]
    /\ (prog.family = "shadow" /\ prog.b \in {2, 3} /\ phase = "exit") =>
          (exit_code = 0 /\ interp.stdout = ShadowOutput(prog.a, prog.b))

\* x was assigned in a block nested in a block, both of which declare an x
\* over the global x: get and assign from the innermost frame have three
\* bindings of x on the chain, and only the innermost holds the assigned value
C12_Witness ==
    /\ prog.family = "shadow" /\ prog.a >= 2 /\ prog.b = 2
    /\ phase = "exit"
    /\ \E e \in DOMAIN interp.envs :
          /\ Cardinality(Holders(interp.envs, e, "x")) = 3
          /\ interp.envs[e].map["x"] = Number(4)
          /\ interp.envs[interp.envs[e].enclosing].map["x"] = Number(2)
          /\ interp.envs[1].map["x"] = Number(1)

\* the kinds of RuntimeException that report an error of the program
RuntimeErrors == {"InvalidOperand", "UndefinedVar", "InvalidCallable", "UnmatchedArity"}

\* C13: the first runtime error ends the run.  The statement of interprete
\* that yields it is the last one executed: the loop does not advance, and
\* from then on the interpreter (its frames, its output) never changes.  A
\* block or call that has ended with a runtime error is followed, in the order
\* of their ends, only by blocks and calls that end with the same error, and
\* what interprete returns is that error.  main then prints one line and
\* exits with 70.  The abort programs, which fail in the second iteration of
\* a loop, have printed what precedes the failure and nothing that follows it
\* in the iteration, the loop, the function body or the program.
C13_FirstRuntimeErrorAborts ==
    /\ [][(result.returned /\ ~result.ok) => UNCHANGED <<interp, next_stmt, result>>]_vars
    /\ [][(phase = "interpret" /\ next_stmt < Len(stmts)
              /\ ~execute(interp, stmts[next_stmt + 1]).ok)
            => (/\ phase' = "returned"
                /\ next_stmt' = next_stmt
                /\ result' = Returned(FALSE, execute(interp, stmts[next_stmt + 1]).val))]_vars
    /\ [](\A i \in DOMAIN interp.log : \A j \in DOMAIN interp.log :
              (i < j /\ interp.log[i].outcome \in RuntimeErrors) =>
                  /\ interp.log[j].outcome = interp.log[i].outcome
                  /\ result.returned => result.val.kind = interp.log[i].outcome)
    /\ []((phase = "exit" /\ result.returned /\ ~result.ok
              /\ result.val.kind \in RuntimeErrors) =>
                (exit_code = 70 /\ Len(main_err) = 1 /\ next_stmt < Len(stmts)))
    /\ []((prog.family = "abort" /\ phase = "exit") =>
              /\ exit_code = 70
              /\ result.val.kind = (IF prog.b = 0 THEN "UndefinedVar" ELSE "InvalidOperand")
              /\ interp.stdout = <<Shown(0), "body", Shown(1)>>)

\* a statement in nested blocks, in the second iteration of a loop of a
\* function body, has failed, and the run has ended with status 70
C13_Witness ==
    /\ prog.family = "abort" /\ prog.a >= 1 /\ prog.b = 1
    /\ phase = "exit"
    /\ exit_code = 70
    /\ \E i \in DOMAIN interp.log :
          interp.log[i].ev = "call" /\ interp.log[i].outcome = "InvalidOperand"
    /\ Cardinality({i \in DOMAIN interp.log :
                       interp.log[i].ev = "block"
                       /\ interp.log[i].outcome = "InvalidOperand"}) >= 3

\* what print writes for the value of Operand(a)
OperandShown(a) ==
    CASE a = 0 -> "nil" [] a = 1 -> "false" [] a = 2 -> "true" [] a = 3 -> Shown(0)
      [] a = 4 -> "" [] a = 5 -> "<native fn>" [] a = 6 -> "<fn f>"
      [] a = 7 -> Shown(1) [] OTHER -> "s"

\* C14: is_true yields a boolean for every value a reached interpreter holds
\* in a frame: false for nil and false, true for every other value, a function
\* value included.  The truth programs, which let each kind of value decide
\* an if, a while, a `!`, an and and an or, end without an error and have
\* printed what that decision prints.
C14_TruthinessTotal ==
    /\ \A e \in DOMAIN interp.envs : \A n \in DOMAIN interp.envs[e].map :
          LET v == interp.envs[e].map[n]
              t == is_true(interp, v)
          IN  /\ t.ok
              /\ t.val = ~(IsNil(v) \/ (IsBool(v) /\ ~v.value.val))
    /\ (prog.family = "truth" /\ phase = "exit") =>
          /\ exit_code = 0
          /\ interp.stdout =
                <<CASE prog.b \in {0, 1} /\ prog.a <= 1 -> IF prog.b = 0 THEN "s" ELSE "after"
                    [] prog.b \in {0, 1} -> "body"
                    [] prog.b = 2 -> IF prog.a <= 1 THEN "true" ELSE "false"
                    [] prog.b = 3 -> IF prog.a <= 1 THEN OperandShown(prog.a) ELSE Shown(1)
                    [] OTHER -> IF prog.a <= 1 THEN Shown(1) ELSE OperandShown(prog.a)>>
                \o (IF prog.b = 1 /\ prog.a <= 1 THEN <<>> ELSE <<"after">>)

\* a value of every tag, and two of the tags that have more than one
Values ==
    <<Nil, Bool(FALSE), Bool(TRUE), Number(0), Number(1),
      CallableRet_Value(StringLiteral("")), CallableRet_Value(StringLiteral("s")),
      CallableRet_Callable(Native)>>

\* C15: is_equal yields a boolean for every pair of values: true for nil and
\* nil and for two values of one tag that are the same, false for two values
\* of different tags, a function value on either side included.  The equal
\* programs end without an error and have printed the == and then the != of
\* their operands: one is "true" and the other "false", and == is "true" for
\* the operands that are the same literal and "false" whenever one of two
\* different operands is not a function.
C15_EqualityTotal ==
    /\ interp.envs # <<>> =>
          \A i \in DOMAIN Values : \A j \in DOMAIN Values :
             LET v == Values[i]
                 w == Values[j]
                 q == is_equal(interp, v, w)
             IN  /\ q.ok
                 /\ v.kind # w.kind => ~q.val
                 /\ (v.kind = "Value" /\ w.kind = "Value") =>
                       q.val = (/\ v.value.tag = w.value.tag
                                /\ (IsNil(v) \/ v.value.val = w.value.val))
    /\ (prog.family = "equal" /\ phase = "exit") =>
          /\ exit_code = 0
          /\ interp.stdout \in {<<"true", "false">>, <<"false", "true">>}
          /\ (prog.a \notin {5, 6} \/ prog.b \notin {5, 6}) =>
                (interp.stdout[1] = "true") = (prog.a = prog.b)

\* C16: the arith programs apply each of - * / > >= < <= to two operands.
\* With two numbers the run ends without an error and has printed the result.
\* With any other operands nothing is printed and the run ends with an
\* InvalidOperand error that names the operator and carries the line of the
\* operator token (line 2, between the operands on lines 1 and 3), reported
\* as "Operands must be a number." with that line.
C16_NumericOperators ==
    (prog.family = "arith" /\ prog.a <= 6 /\ phase = "exit") =>
        IF prog.b \in {0, 4}
        THEN /\ exit_code = 0
             /\ interp.stdout =
                   <<IF prog.b = 0
                     THEN CASE prog.a = 0 -> Shown(3) [] prog.a = 1 -> Shown(18)
                            [] prog.a = 2 -> Shown(2) [] prog.a \in {3, 4} -> "true"
                            [] OTHER -> "false"
                     ELSE CASE prog.a = 0 -> Shown(0) [] prog.a = 1 -> Shown(9)
                            [] prog.a = 2 -> Shown(1) [] prog.a \in {4, 6} -> "true"
                            [] OTHER -> "false",
                     "after">>
        ELSE /\ exit_code = 70
             /\ interp.stdout = <<>>
             /\ result.val.kind = "InvalidOperand"
             /\ result.val.ttype = Symbols[Operator(prog.a)]
             /\ result.val.line = 2
             /\ main_err = <<"Operands must be a number.\n[line 2]">>

\* the run has ended with the type error of +, reported with line, and has
\* printed nothing
PlusRefused(line) ==
    /\ exit_code = 70
    /\ interp.stdout = <<>>
    /\ result.val.kind = "InvalidOperand"
    /\ result.val.line = line
    /\ main_err = <<"Operands must be two numbers or two strings.\n[line "
                    \o NatToStr(line) \o "]">>

\* C17: the plus programs apply + to every pair of operands among nil, false,
\* true, 0, 1, "", "s", the native function and a user function.  Two numbers
\* print their sum and two strings their concatenation, and the run ends
\* without an error; every other pair ends the run with the type error of +,
\* reported with the line of the +, and prints nothing.  So do the arith
\* programs of +: 6 + 3 is 9, 3 + 3 is 6, "s" + "after" is "safter", and the
\* mixed pairs are refused.
C17_PlusOverloads ==
    /\ (prog.family = "plus" /\ phase = "exit") =>
          CASE prog.a \in {3, 7} /\ prog.b \in {3, 7} ->
                  /\ exit_code = 0
                  /\ interp.stdout =
                        <<Shown((IF prog.a = 7 THEN 1 ELSE 0) + (IF prog.b = 7 THEN 1 ELSE 0)),
                          "after">>
            [] prog.a \in {4, 8} /\ prog.b \in {4, 8} ->
                  /\ exit_code = 0
                  /\ interp.stdout =
                        <<(IF prog.a = 8 THEN "s" ELSE "") \o (IF prog.b = 8 THEN "s" ELSE ""),
                          "after">>
            [] OTHER -> PlusRefused(3)
    /\ (prog.family = "arith" /\ prog.a = 7 /\ phase = "exit") =>
          CASE prog.b = 0 -> exit_code = 0 /\ interp.stdout = <<Shown(9), "after">>
            [] prog.b = 4 -> exit_code = 0 /\ interp.stdout = <<Shown(6), "after">>
            [] prog.b = 5 -> exit_code = 0 /\ interp.stdout = <<"safter", "after">>
            [] OTHER -> PlusRefused(2)

\* a String and a Number, in this order, were added, and the run has ended
\* with the type error
C17_Witness ==
    /\ prog.family = "plus" /\ prog.a = 8 /\ prog.b = 7
    /\ phase = "exit"
    /\ PlusRefused(3)

\* C18: the logical programs print `left and r()` or `left or r()` for every
\* kind of left operand, where r prints "body" and returns nil.  When the left
\* operand decides (falsy for and, truthy for or) the printed result is the
\* left operand itself and r has not been called; otherwise r has been called
\* exactly once and the printed result is its value nil, not a boolean.  The
\* run ends without an error.
C18_ShortCircuit ==
    (prog.family = "logical" /\ phase = "exit") =>
        /\ exit_code = 0
        /\ interp.stdout =
              IF (prog.a <= 1) = (prog.b = 0)
              THEN <<OperandShown(prog.a), "after">>
              ELSE <<"body", "nil", "after">>
        /\ Cardinality({i \in DOMAIN interp.log : interp.log[i].ev = "call"}) =
              IF (prog.a <= 1) = (prog.b = 0) THEN 0 ELSE 1

\* C19: the for statement of every for program, with or without each of its
\* clauses, is parsed into a while statement, inside a block after the
\* initializer when there is one, whose body is the block of the loop body
\* and the increment when there is one and the loop body otherwise.  The loop
\* repeats: with the condition i < 2 it prints 0 and 1 and ends, and the
\* function goes on to print "after"; without a condition it prints 0, 1 and
\* 2 and is then left by the return of its body.
C19_ForIsWhile ==
    (prog.family = "for" /\ phase # "parse") =>
        LET for == stmts[1].body.stmts[2]
            while == IF prog.b = 0 THEN for ELSE for.stmts[2]
        IN  /\ parser.status = "Success"
            /\ prog.b # 0 =>
                  /\ for.node = "BlockStmt" /\ Len(for.stmts) = 2
                  /\ for.stmts[1].node = IF prog.b = 1 THEN "VarStmt" ELSE "ExprStmt"
            /\ while.node = "WhileStmt"
            /\ while.body.node = "BlockStmt"
            /\ prog.a \in {2, 3} =>
                  /\ Len(while.body.stmts) = 2
                  /\ while.body.stmts[1].node = "BlockStmt"
                  /\ while.body.stmts[2].node = "ExprStmt"
                  /\ while.body.stmts[2].expr.node = "AssignmentExpr"
            /\ prog.a \in {1, 3} => while.condition.node = "BinaryExpr"
            /\ phase = "exit" =>
                  /\ exit_code = 0
                  /\ interp.stdout = IF prog.a \in {1, 3}
                                      THEN <<Shown(0), Shown(1), "after">>
                                      ELSE <<Shown(0), Shown(1), Shown(2)>>

\* C20: the limit programs declare a function with 254, 255 or 256
\* parameters, or make a call with as many arguments.  Up to 255 entries the
\* parser writes no diagnostic; with 256 it writes one, and in every case it
\* returns the node of the declaration or of the call with all its entries,
\* followed by the node of the statement after it.
C20_LimitIsReportedOnly ==
    (prog.family = "limit" /\ phase # "parse") =>
        /\ (parser.stdout = <<>> /\ parser.stderr = <<>>) = (prog.b <= 1)
        /\ Len(stmts) = 2
        /\ stmts[2].node = "PrintStmt"
        /\ IF prog.a = 0
           THEN /\ stmts[1].node = "FunctionStmt"
                /\ Len(stmts[1].params) = MaxParams + prog.b - 1
           ELSE /\ stmts[1].node = "ExprStmt"
                /\ stmts[1].expr.node = "CallExpr"
                /\ Len(stmts[1].expr.arguments) = MaxParams + prog.b - 1

\* the parser with its cursor on the k-th token
ParserAt(k) == [parser EXCEPT !.current = k]

\* the cursor positions of a program with syntax errors at which a declaration
\* fails
Failures ==
    IF prog.family = "syntax" /\ phase = "parse" /\ parser.current = 0
    THEN {k \in 0..Len(parser.tokens) - 2 : ~declaration_rule(ParserAt(k)).ok}
    ELSE {}

\* synchronize has stopped at a statement boundary
Boundary(p) ==
    \/ end(p)
    \/ previous(p).ttype = "SEMICOLON"
    \/ peek(p).ttype \in SyncKeywords

\* the parser has returned two statements, the first of them the statement
\* between the two errors, and has written two diagnostics
BothReported ==
    (phase = "parse" /\ end(parser)) =>
        /\ Len(parser.stderr) = 2
        /\ parser.status = "Panic"
        /\ Len(stmts) = 2
        /\ stmts[1].node = (IF prog.a = 6 THEN "ExprStmt" ELSE "PrintStmt")
        /\ stmts[1].expr = Literal_new(NumberLiteral(2))
        /\ stmts[2].node = "PrintStmt"

\* C21 as stated: synchronize discards at least one token after every syntax
\* error and stops at a statement boundary, and of two syntax errors with a
\* well-formed statement between them both are reported and the statement is
\* returned.
C21_AsStated ==
    /\ \A k \in Failures :
          LET r == declaration_rule(ParserAt(k))
              s == synchronize(r.st)
          IN  s.current > r.st.current /\ Boundary(s)
    /\ (phase = "parse" /\ ~end(parser) /\ ~declaration_rule(parser).ok) =>
          LET r == declaration_rule(parser)
              s == synchronize(r.st)
          IN  s.current > r.st.current /\ Boundary(s)
    /\ (prog.family = "syntax" /\ prog.a \in {4, 6, 7}) => BothReported

\* C21: synchronize stops at a statement boundary after every syntax error,
\* having discarded at least one token unless the error is at EOF, where it
\* discards none; declaration leaves the parser there.  Of two syntax errors
\* with a well-formed statement between them both are reported, and the
\* statement is returned when the first error is followed by a `;` of its
\* own statement.
C21_SynchronizeStopsAtBoundary ==
    /\ \A k \in Failures :
          LET r == declaration_rule(ParserAt(k))
              s == synchronize(r.st)
          IN  /\ Boundary(s)
              /\ IF end(r.st) THEN s = r.st ELSE s.current > r.st.current
              /\ declaration(ParserAt(k)).st.current = s.current
    /\ (phase = "parse" /\ ~end(parser) /\ ~declaration_rule(parser).ok) =>
          LET r == declaration_rule(parser)
              s == synchronize(r.st)
          IN  /\ Boundary(s)
              /\ IF end(r.st) THEN s = r.st ELSE s.current > r.st.current
              /\ declaration(parser).st.current = s.current
    /\ (prog.family = "syntax" /\ prog.a \in {4, 6}) => BothReported

C21_Witness ==
    /\ prog.family = "syntax" /\ prog.a = 6
    /\ phase = "exit"
    /\ Len(parser.stderr) = 2
    /\ Len(stmts) = 2

\* the level of a binary operator in the grammar: equality, comparison, term,
\* factor
Level(w) ==
    CASE w = "==" -> 1 [] w = "<" -> 2 [] w \in {"-", "+"} -> 3 [] OTHER -> 4

\* the number that an arithmetic operator makes of two numbers
Applied(w, x, y) ==
    CASE w = "-" -> x - y [] w = "+" -> x + y [] w = "*" -> x * y
      [] OTHER -> x \div y

\* the node of a number literal, and of an operator between two nodes
Leaf(n) == Literal_new(NumberLiteral(n))

Node(left, w, right) == Binary_new(left, Word(w, 1), right)

\* C25: x v y w z is parsed as (x v y) w z when w is of the level of v or of
\* a lower one, and as x v (y w z) when w is of a higher level: operators of
\* one level lean to the left, an operator of a higher level is deeper in the
\* tree.  The value printed is the one this tree has: 1 + 2 * 3 prints 7,
\* 1 - 2 - 3 prints -4.
C25_LeftLeaningLevels ==
    (prog.family = "precedence" /\ phase # "parse") =>
        LET v == IF prog.b = 6 THEN (IF prog.a = 0 THEN "+" ELSE "-") ELSE Infix(prog.a)
            w == IF prog.b = 6 THEN (IF prog.a = 0 THEN "*" ELSE "-") ELSE Infix(prog.b)
            x == IF prog.b = 6 THEN 1 ELSE 8
            y == IF prog.b = 6 THEN 2 ELSE 4
            z == IF prog.b = 6 THEN 3 ELSE 2
            deeper == Level(w) > Level(v)
        IN  /\ Len(stmts) = 1
            /\ parser.status = "Success"
            /\ stmts[1] = PrintStmt(IF deeper
                                    THEN Node(Leaf(x), v, Node(Leaf(y), w, Leaf(z)))
                                    ELSE Node(Node(Leaf(x), v, Leaf(y)), w, Leaf(z)))
            /\ (phase = "exit" /\ Level(v) >= 3 /\ Level(w) >= 3) =>
                  /\ exit_code = 0
                  /\ interp.stdout =
                        <<Shown(IF deeper THEN Applied(v, x, Applied(w, y, z))
                                ELSE Applied(w, Applied(v, x, y), z))>>
            /\ (phase = "exit" /\ prog.b = 6) =>
                  interp.stdout = <<IF prog.a = 0 THEN "7.0" ELSE "-4.0">>

C25_Witness ==
    /\ prog.family = "precedence" /\ prog.a = 1 /\ prog.b = 6
    /\ phase = "exit"
    /\ interp.stdout = <<"-4.0">>

\* C26: the global frame is the first frame and the only one without a
\* parent; the parent of every other frame is a frame created before it, so
\* the chain of a frame ends at the global frame and does not come back to the
\* frame; get and assign of a name that no frame holds walk the whole chain and
\* return UndefinedVar.  No step removes a frame or changes the parent of one.
C26_EnclosingChainIsAcyclic ==
    /\ [](\A e \in DOMAIN interp.envs :
             LET parent == interp.envs[e].enclosing
                 absent == Word("absent", 1)
             IN  /\ parent \in 0..e - 1
                 /\ (parent = 0) = (e = 1)
                 /\ 1 \in Chain(interp.envs, e)
                 /\ e \notin Chain(interp.envs, parent)
                 /\ Chain(interp.envs, e) \subseteq 1..e
                 /\ get(interp.envs, e, absent) = Err(interp.envs, UndefinedVar(absent))
                 /\ assign(interp.envs, e, absent, Nil)
                       = Err(interp.envs, UndefinedVar(absent)))
    /\ [][\A e \in DOMAIN interp.envs :
             /\ e \in DOMAIN interp'.envs
             /\ interp'.envs[e].enclosing = interp.envs[e].enclosing]_vars

\* a frame whose chain is four frames long has been created
C26_Witness ==
    /\ phase = "exit"
    /\ \E e \in DOMAIN interp.envs : Cardinality(Chain(interp.envs, e)) >= 4

\* C27: the cursor of the parser is never behind the EOF token, the last
\* token.  An iteration of the loop of parse starts before EOF and leaves the
\* cursor behind the token it started at, whether its declaration failed or
\* not, so there are fewer iterations than tokens; at EOF the loop is left.
\* An iteration of the loop of block_statement, at whatever token of a
\* program it starts, leaves the cursor behind that token as well.
C27_ParseTerminates ==
    /\ [](/\ parser.current \in 0..Len(parser.tokens) - 1
          /\ end(parser) = (parser.current = Len(parser.tokens) - 1))
    /\ [][(phase = "parse" /\ ~end(parser)) =>
             /\ phase' = "parse"
             /\ parser'.tokens = parser.tokens
             /\ parser'.current > parser.current]_vars
    /\ [][(phase = "parse" /\ end(parser)) => phase' # "parse"]_vars
    /\ [](\A k \in 0..Len(parser.tokens) - 1 :
             (/\ phase = "parse" /\ parser.current = 0 /\ prog.family # "limit"
              /\ ~check(ParserAt(k), "RIGHT_BRACE") /\ ~end(ParserAt(k))) =>
                 declaration(ParserAt(k)).st.current > k)

\* parse has come to its end after an iteration that failed inside a block
\* and one that failed at EOF
C27_Witness ==
    /\ phase = "exit"
    /\ exit_code = 65
    /\ end(parser)
    /\ prog.family = "syntax" /\ prog.a \in {1, 5}

\* C28: the last token of a program is its only EOF token, and the cursor of
\* the parser is on a token of the list in every state.  From every token k
\* of a program: peek and previous read tokens of the list (previous for
\* k >= 1); advance, match_then_advance and consume leave the cursor on k or
\* on the token after it and never behind EOF; a declaration that starts at k
\* ends on a token of the list, and when it fails, it fails on a token of the
\* list from which the advance of synchronize leaves a cursor >= 1 for its
\* call of previous, and synchronize ends on a token of the list.
C28_CursorInBounds ==
    LET n == Len(parser.tokens)
        inside(p) == p.current \in 0..n - 1 /\ p.tokens = parser.tokens
    IN  /\ n >= 1
        /\ \A i \in 1..n : (parser.tokens[i].ttype = "EOF") = (i = n)
        /\ inside(parser)
        /\ (phase = "parse" /\ parser.current = 0 /\ prog.family # "limit") =>
              \A k \in 0..n - 1 :
                 LET p == ParserAt(k)
                     r == declaration_rule(p)
                     s == synchronize(r.st)
                 IN  /\ inside(advance(p))
                     /\ advance(p).current = (IF k = n - 1 THEN k ELSE k + 1)
                     /\ peek(p) = parser.tokens[k + 1]
                     /\ k >= 1 => previous(p) = parser.tokens[k]
                     /\ \A i \in 1..n :
                           LET m == match_then_advance(p, {parser.tokens[i].ttype})
                               c == consume(p, parser.tokens[i].ttype, "expected")
                           IN  /\ inside(m.st) /\ inside(c.st)
                               /\ m.st.current = (IF m.ok THEN k + 1 ELSE k)
                               /\ c.st.current = (IF c.ok THEN k + 1 ELSE k)
                               /\ c.ok => c.val = parser.tokens[k + 1]
                               /\ ~c.ok => c.val.token = parser.tokens[k + 1]
                     /\ k < n - 1 =>
                           /\ inside(r.st)
                           /\ r.st.current >= k
                           /\ ~r.ok =>
                                 /\ r.val.token \in {parser.tokens[i] : i \in 1..n}
                                 /\ advance(r.st).current >= 1
                                 /\ inside(s)
                                 /\ s.current >= r.st.current

\* a declaration has failed at EOF, synchronize has been called there, and
\* the parser has ended on the EOF token
C28_Witness ==
    /\ prog.family = "syntax" /\ prog.a = 5
    /\ phase = "exit"
    /\ parser.current = Len(parser.tokens) - 1
    /\ Len(parser.stderr) = 1

\* C29: the operand order programs have printed "block" and "body" and have
\* assigned 5 to x when the left operand is a call, whether it yields a number
\* or nil, and have assigned 5 to x when the left operand is the literal nil:
\* the right operand is evaluated before the operator refuses nil, which every
\* operator but == and != does with InvalidOperand.  When the left operand is
\* an undefined name or nil - 1, the run ends with the error of the left
\* operand, nothing is printed and x is still 1.
C29_OperandsBeforeTypeCheck ==
    (prog.family = "operand_order" /\ phase = "exit") =>
        LET x == interp.envs[1].map["x"]
            compares == prog.a \in {8, 9}
            done == CASE prog.b \in {0, 1} -> <<"block", "body">> [] OTHER -> <<>>
        IN  /\ prog.b \in {0, 1, 3} => x = Number(5)
            /\ prog.b \in {2, 4} => x = Number(1)
            /\ prog.b = 0 =>
                  /\ exit_code = 0
                  /\ Len(interp.stdout) = 4
                  /\ SubSeq(interp.stdout, 1, 2) = done
                  /\ interp.stdout[4] = "after"
            /\ (prog.b \in {1, 3} /\ compares) =>
                  /\ exit_code = 0
                  /\ interp.stdout
                        = done \o <<IF prog.a = 8 THEN "false" ELSE "true", "after">>
            /\ (prog.b \in {1, 3} /\ ~compares) =>
                  /\ exit_code = 70
                  /\ result.val.kind = "InvalidOperand"
                  /\ interp.stdout = done
            /\ prog.b \in {2, 4} =>
                  /\ exit_code = 70
                  /\ result.val.kind = (IF prog.b = 2 THEN "UndefinedVar"
                                        ELSE "InvalidOperand")
                  /\ interp.stdout = <<>>

\* the right operand of - has printed and assigned although the left one is nil
C29_Witness ==
    /\ prog.family = "operand_order" /\ prog.a = 0 /\ prog.b = 1
    /\ phase = "exit"
    /\ exit_code = 70
    /\ interp.stdout = <<"block", "body">>
    /\ interp.envs[1].map["x"] = Number(5)

\* C30: in every state of the interpreter, a declaration var x = nil - 1; and
\* an assignment x = nil - 1 fail with InvalidOperand and leave the
\* interpreter as it is.  The update programs, whose statement is executed in
\* frame a + 1: var x = x + 1 reads the x of the frame or of an enclosing one
\* and defines x as 2 in the frame, the global x staying 1 under a block; a
\* declaration whose initializer fails defines its name in no frame and an
\* assignment whose value fails leaves x at 1, also when the failing
\* expression has assigned 5 to y on its way; var w; defines w as nil.
C30_FailedValueLeavesBinding ==
    LET envs == interp.envs
        x == Word("x", 1)
        fails == Binary_new(Literal_new(NilLiteral), Word("-", 1),
                            Literal_new(NumberLiteral(1)))
        refused == InvalidOperand("MINUS", "Operands must be a number.", 1)
        bound(n) == {e \in DOMAIN envs : n \in DOMAIN envs[e].map}
        top == Len(envs) >= prog.a + 1
    IN  /\ (phase \in {"interpret", "returned", "exit"} /\ envs # <<>>) =>
              /\ visit_var_stmt(interp, VarStmt(x, fails)) = Err(interp, refused)
              /\ visit_assignment(interp, Assignment_new(x, fails)) = Err(interp, refused)
        /\ (prog.family = "update" /\ phase = "exit") =>
              /\ prog.b = 0 =>
                    /\ exit_code = 0
                    /\ interp.stdout = <<Shown(2), Shown(IF prog.a = 0 THEN 2 ELSE 1)>>
                    /\ bound("x") = {1, prog.a + 1}
                    /\ envs[prog.a + 1].map["x"] = Number(2)
              /\ prog.b \in {1, 2, 3, 5, 6} =>
                    /\ exit_code = 70
                    /\ result.val.kind = (IF prog.b = 1 THEN "UndefinedVar"
                                          ELSE "InvalidOperand")
                    /\ interp.stdout = <<>>
                    /\ top
                    /\ bound("x") = {1}
                    /\ envs[1].map["x"] = Number(1)
                    /\ bound("w") = {}
                    /\ envs[1].map["y"] = Number(IF prog.b >= 5 THEN 5 ELSE 0)
              /\ prog.b = 4 =>
                    /\ exit_code = 0
                    /\ interp.stdout = <<"nil", Shown(1)>>
                    /\ bound("w") = {prog.a + 1}
                    /\ envs[prog.a + 1].map["w"] = Nil

\* the initializer of a declaration of x in a block has failed, and the frame
\* of the block is without an x
C30_Witness ==
    /\ prog.family = "update" /\ prog.a = MaxNest /\ prog.b = 2
    /\ phase = "exit"
    /\ exit_code = 70
    /\ Len(interp.envs) >= MaxNest + 1
    /\ "x" \notin DOMAIN interp.envs[MaxNest + 1].map

\* the ttypes and the lexemes of the tokens of the scanner
Scanned == [i \in DOMAIN scanner.tokens |->
               <<scanner.tokens[i].ttype, scanner.tokens[i].lexeme>>]

\* what the scanner makes of a source, scanned on its own
Alone(source) == scan_tokens(Scanner_new(source))

\* C22: the status of the scanner is a failure status exactly when a
\* diagnostic has been written.  An iteration of the loop of scan_tokens that
\* ends with an error writes one diagnostic, sets a failure status, adds no
\* token and leaves the scanner scanning; one that ends without an error
\* leaves the diagnostics and the status as they are.  The loop ends at the
\* end of the source only; main then exits with 65 without a parser when a
\* diagnostic was written, and hands all the tokens to the parser otherwise.  A source that follows the unknown character @ yields the
\* tokens it yields on its own, and a source that @ follows as well; the
\* diagnostic of @ precedes those of the source after it.  #print 2; yields
\* the tokens of print 2; after its diagnostic.
C22_ScanGoesOnAfterError ==
    /\ []((scanner.status # "ScanSuccess") = (scanner.stderr # <<>>))
    /\ [][(phase = "scan" /\ ~Scanner_end(scanner)) =>
             LET r == scan_token([scanner EXCEPT !.start = scanner.current])
             IN  /\ phase' = "scan"
                 /\ scanner'.source = scanner.source
                 /\ SubSeq(scanner'.tokens, 1, Len(scanner.tokens)) = scanner.tokens
                 /\ IF r.ok
                    THEN /\ scanner'.stderr = scanner.stderr
                         /\ scanner'.status = scanner.status
                    ELSE /\ scanner'.stderr
                               = Append(scanner.stderr, ScannerError_fmt(r.val))
                         /\ scanner'.status # "ScanSuccess"
                         /\ scanner'.tokens = scanner.tokens]_vars
    /\ []((prog.family = "pieces" /\ phase # "scan") =>
             /\ Scanner_end(scanner)
             /\ IF scanner.stderr # <<>>
                THEN phase = "exit" /\ exit_code = 65 /\ parser = Parser_new(<<>>)
                ELSE parser.tokens = scanner.tokens
             /\ prog.a = 3 =>
                   LET rest == Alone(trim_end(Pieces[prog.b]))
                   IN  /\ scanner.tokens = rest.tokens
                       /\ scanner.stderr
                             = <<"[line 1] Error: Unexpected character: @">> \o rest.stderr
             /\ prog.b = 3 => scanner.tokens = Alone(Pieces[prog.a]).tokens
             /\ (prog.a = 14 /\ prog.b = 1) =>
                   /\ Scanned = <<<<"PRINT", "print">>, <<"NUMBER", "2">>,
                                  <<"SEMICOLON", ";">>, <<"EOF", "">>>>
                   /\ scanner.stderr = <<"[line 1] Error: Unexpected character: #">>)

\* two unknown characters have been reported, the tokens between them have
\* been returned, and main has exited with 65
C22_Witness ==
    /\ prog.family = "pieces" /\ prog.a = 14 /\ prog.b = 3
    /\ phase = "exit"
    /\ exit_code = 65
    /\ Len(scanner.stderr) = 2
    /\ Len(scanner.tokens) = 4

\* C23: the cursor of the scanner is never behind the end of the source.  An
\* iteration of the loop of scan_tokens starts before the end and leaves the
\* cursor behind the character it started at, so there are no more iterations
\* than characters; at the end of the source the loop is left.  Until then no
\* token is an EOF token; from then on the last token, and no other, is an EOF
\* token, and its lexeme is empty.
C23_ScanTerminatesWithOneEof ==
    /\ [](/\ scanner.current \in 0..Len(scanner.source)
          /\ scanner.start \in 0..scanner.current)
    /\ [][(phase = "scan" /\ ~Scanner_end(scanner)) =>
             /\ phase' = "scan"
             /\ scanner'.source = scanner.source
             /\ scanner'.current > scanner.current]_vars
    /\ [][(phase = "scan" /\ Scanner_end(scanner)) => phase' # "scan"]_vars
    /\ [](prog.family = "pieces" =>
             LET n == Len(scanner.tokens)
             IN  IF phase = "scan"
                 THEN \A i \in 1..n : scanner.tokens[i].ttype # "EOF"
                 ELSE /\ n >= 1
                      /\ \A i \in 1..n : (scanner.tokens[i].ttype = "EOF") = (i = n)
                      /\ scanner.tokens[n].lexeme = ""
                      /\ scanner.tokens[n].literal = None
                      /\ scanner = Alone(scanner.source))

\* an empty source has been scanned, and a source with an unterminated string
C23_Witness ==
    /\ prog.family = "pieces" /\ phase # "scan"
    /\ \/ scanner.source = <<>> /\ Scanned = <<<<"EOF", "">>>>
       \/ /\ scanner.status = "NonTerminatedStringErr"
          /\ scanner.tokens[Len(scanner.tokens)].ttype = "EOF"

\* C24: the last character of the lexeme of a NUMBER token is a digit: a `.`
\* that no digit follows is not part of it.  123. yields the NUMBER 123 and a
\* DOT, 1.foo the NUMBER 1, a DOT and the IDENTIFIER foo; 2.0; yields the
\* NUMBER 2.0.
C24_DotIsInteriorOnly ==
    /\ [][(phase = "scan" /\ Len(scanner'.tokens) > Len(scanner.tokens)
              /\ scanner'.tokens[Len(scanner'.tokens)].ttype = "NUMBER") =>
             is_digit(scanner'.source[scanner'.current])]_vars
    /\ []((prog.family = "pieces" /\ phase # "scan" /\ prog.b = 1) =>
             /\ prog.a = 4 => Scanned = <<<<"NUMBER", "123">>, <<"DOT", ".">>,
                                          <<"EOF", "">>>>
             /\ prog.a = 5 => Scanned = <<<<"NUMBER", "1">>, <<"DOT", ".">>,
                                          <<"IDENTIFIER", "foo">>, <<"EOF", "">>>>
             /\ prog.a = 6 => Scanned = <<<<"NUMBER", "2.0">>, <<"SEMICOLON", ";">>,
                                          <<"EOF", "">>>>)

====
